---- MODULE Spec2Model ----
(***************************************************************************)
(* Model of the comparison core of DataQEsuite (src/core/data_diffs.py):   *)
(* DataComparator.compare_dataframes with its two per-chunk matchers,      *)
(* df_hash_for_compare (row hash mode) and _compare_with_keys (key mode),  *)
(* and the module-level helpers they use.                                  *)
(*                                                                         *)
(* Representation.  A string is a sequence of one-character strings.  The  *)
(* null value (None / NaN, whatever pd.isna accepts) is the one-element    *)
(* sequence NaN whose element is no character.  A dataframe is a record    *)
(* [columns, rows]: columns is the sequence of column names, rows the      *)
(* sequence of rows in positional order, each row a function from the      *)
(* column names to values.  A diff row is a row together with the two tag  *)
(* columns __source and __mismatch_type the code adds.                     *)
(***************************************************************************)
EXTENDS Integers, Sequences, FiniteSets, TLC

(***************************************************************************)
(* Bounds of the model.                                                    *)
(***************************************************************************)
MaxRows == 2

(***************************************************************************)
(* State.  One call of compare_dataframes on a DataComparator:             *)
(*   arg_src, arg_tgt, arg_keys, arg_chunk   the arguments src_df, tgt_df,  *)
(*       key_columns (<<>> for None) and chunk_size;                        *)
(*   hash_seed        the string hash seed of the interpreter, which fixes  *)
(*       the iteration order of its sets for the life of the process;       *)
(*   pc               "call", "loop", "returned" or "raised";              *)
(*   chunks, i        the number of windows and the loop variable;          *)
(*   valid_src_keys   the resolved key columns (<<>> for None);             *)
(*   acc              the accumulators of the loop: src_diff_chunks,        *)
(*       tgt_diff_chunks, value_mismatch_chunks (each kept concatenated),   *)
(*       total_diff_count and value_mismatch_count;                         *)
(*   last_chunk_result   the local chunk_result of the latest iteration;    *)
(*   mismatch_details   the attribute self.mismatch_details;                *)
(*   df_cmp_result_data, cmp_summary_df   the returned pair;                *)
(*   error            the messages of the exception a call raised, outermost *)
(*       first (<<>> while none is raised);                                 *)
(*   call, result     a call of one of the other methods of the comparator   *)
(*       (check_threshold, compare_column_structure, check_duplicates): the *)
(*       method with its arguments, and what it returned or raised;         *)
(*   analysis         a call of DataDiff.analyze_and_categorize_mismatches   *)
(*       on the returned pair: its arguments and what it returned;          *)
(*   comparison_summary   the attribute self.comparison_summary of the      *)
(*       DataDiff object.                                                   *)
(***************************************************************************)
VARIABLES arg_src, arg_tgt, arg_keys, arg_chunk, hash_seed,
          pc, chunks, i, valid_src_keys, acc, last_chunk_result,
          mismatch_details, df_cmp_result_data, cmp_summary_df, error,
          call, result, analysis, comparison_summary

vars == <<arg_src, arg_tgt, arg_keys, arg_chunk, hash_seed,
          pc, chunks, i, valid_src_keys, acc, last_chunk_result,
          mismatch_details, df_cmp_result_data, cmp_summary_df, error,
          call, result, analysis, comparison_summary>>

\* the state of a compare_dataframes call
compare_vars == <<arg_src, arg_tgt, arg_keys, arg_chunk, hash_seed,
                  pc, chunks, i, valid_src_keys, acc, last_chunk_result,
                  mismatch_details, df_cmp_result_data, cmp_summary_df, error>>

\* the state of a call of one of the other methods
util_vars == <<call, result>>

\* the state of the analyzer (DataDiff)
analyzer_vars == <<analysis, comparison_summary>>

(***************************************************************************)
(* Characters and strings.                                                 *)
(***************************************************************************)
\* The characters of the model in ASCII order (for sorted()).
CharOrder == <<" ", "1", "2", "A", "D", "I", "J", "K", "N", "X", "_",
               "a", "d", "e", "h", "i", "j", "k", "m", "n", "t", "x">>

Ord(c) == CHOOSE n \in 1..Len(CharOrder) : CharOrder[n] = c

\* str.lower() on one character
LowerChar(c) ==
    CASE c = "A" -> "a"
      [] c = "D" -> "d"
      [] c = "I" -> "i"
      [] c = "J" -> "j"
      [] c = "K" -> "k"
      [] c = "N" -> "n"
      [] c = "X" -> "x"
      [] OTHER   -> c

\* str.lower()
lower(s) == [n \in 1..Len(s) |-> LowerChar(s[n])]

\* the characters the pattern [_\s] matches
IsSeparator(c) == c \in {"_", " "}

NotSeparator(c) == ~IsSeparator(c)

\* str.isalnum() on one character
IsAlnum(c) == c \notin {"_", " "}

\* str.strip()
RECURSIVE lstrip(_)
lstrip(s) == IF s # <<>> /\ Head(s) = " " THEN lstrip(Tail(s)) ELSE s

RECURSIVE rstrip(_)
rstrip(s) ==
    IF s # <<>> /\ s[Len(s)] = " " THEN rstrip(SubSeq(s, 1, Len(s) - 1)) ELSE s

strip(s) == rstrip(lstrip(s))

\* lexicographic order on strings, as Python compares str
RECURSIVE StrLess(_, _)
StrLess(s, t) ==
    IF t = <<>> THEN FALSE
    ELSE IF s = <<>> THEN TRUE
    ELSE IF Head(s) = Head(t) THEN StrLess(Tail(s), Tail(t))
    ELSE Ord(Head(s)) < Ord(Head(t))

\* sorted(list(S)) for a set of strings
RECURSIVE sorted(_)
sorted(S) ==
    IF S = {} THEN <<>>
    ELSE LET m == CHOOSE x \in S : \A y \in S \ {x} : StrLess(x, y)
         IN  <<m>> \o sorted(S \ {m})

(***************************************************************************)
(* Values.                                                                 *)
(***************************************************************************)
NaN == <<"NaN">>

isna(v) == v = NaN

NA == <<"N", "A">>

\* the None a fingerprint holds for a column the row does not have
None == <<"None">>

(***************************************************************************)
(* Shared utility functions.                                               *)
(***************************************************************************)
\* re.sub(r'[_\s]+', '', value, count=1): only the first run is removed
RECURSIVE RemoveFirstSeparators(_)
RemoveFirstSeparators(s) ==
    IF s = <<>> THEN <<>>
    ELSE IF IsSeparator(Head(s))
         THEN IF Len(s) > 1 /\ IsSeparator(s[2])
              THEN RemoveFirstSeparators(Tail(s))
              ELSE Tail(s)
         ELSE <<Head(s)>> \o RemoveFirstSeparators(Tail(s))

\* re.sub(r'[_\s]+', '', value)
RemoveSeparators(s) == SelectSeq(s, NotSeparator)

\* str(value).lower().strip(): separators inside the string are kept
normalize_key_value_stripped(value) ==
    IF isna(value) THEN NA ELSE strip(lower(value))

\* normalize_key_value: "NA" for null, else lower-cased, separators removed,
\* stripped.
normalize_key_value(value) ==
    IF isna(value) THEN NA ELSE strip(RemoveSeparators(lower(value)))

(***************************************************************************)
(* Sequences, sets and dict helpers.                                       *)
(***************************************************************************)
Range(s) == {s[n] : n \in 1..Len(s)}

RECURSIVE Concat(_)
Concat(ss) == IF ss = <<>> THEN <<>> ELSE Head(ss) \o Concat(Tail(ss))

Reverse(s) == [n \in 1..Len(s) |-> s[Len(s) + 1 - n]]

Max(a, b) == IF a >= b THEN a ELSE b

Min(a, b) == IF a <= b THEN a ELSE b

\* Some enumeration of a set.
RECURSIVE Enumerate(_)
Enumerate(S) ==
    IF S = {} THEN <<>>
    ELSE LET x == CHOOSE y \in S : TRUE IN <<x>> \o Enumerate(S \ {x})

\* Iteration order of a Python set of tuples of strings: it depends on the
\* interpreter's string hash seed, so it is one order or another per process.
\* The model lets the seed choose between an enumeration and its reverse.
SetOrder(S) == IF hash_seed = 0 THEN Enumerate(S) ELSE Reverse(Enumerate(S))

EmptyDict == [k \in {} |-> {}]

\* old.update(new)
DictUpdate(old, new) ==
    [k \in DOMAIN old \cup DOMAIN new |-> IF k \in DOMAIN new THEN new[k] ELSE old[k]]

\* df.iloc[a:b] on the rows (0-based, end exclusive, clipped as a slice is)
iloc(df, a, b) ==
    [columns |-> df.columns,
     rows    |-> SubSeq(df.rows, a + 1, Min(b, Len(df.rows)))]

\* len(df)
len(df) == Len(df.rows)

(***************************************************************************)
(* The messages of the exceptions, and the wrapping raise ... from of an   *)
(* except clause: f"<message>: {e}".                                       *)
(***************************************************************************)
NoCommonColumns == "DataFrames have no columns in common"

KeyColumnsNotFound == "Key columns not found in both dataframes"

KeyError == "KeyError"

KeyComparisonFailed == "Enhanced key-based comparison failed"

DataComparisonFailed == "Data comparison failed"

NoError == <<>>

Wrapped(message, e) == <<message>> \o e

(***************************************************************************)
(* DataComparator: column reconciliation.                                  *)
(***************************************************************************)
\* {col.lower(): col for col in columns}: a later column replaces an earlier
\* one with the same lower-cased name.
col_map(columns) ==
    [key \in {lower(columns[n]) : n \in 1..Len(columns)} |->
        LET last == CHOOSE n \in 1..Len(columns) :
                        /\ lower(columns[n]) = key
                        /\ \A m \in (n + 1)..Len(columns) : lower(columns[m]) # key
        IN  columns[last]]

\* _normalize_column_names; raised = TRUE stands for the ValueError
\* "DataFrames have no columns in common".
_normalize_column_names(src_df, tgt_df) ==
    LET src_col_map == col_map(src_df.columns)
        tgt_col_map == col_map(tgt_df.columns)
        shared_col_keys == sorted(DOMAIN src_col_map \cap DOMAIN tgt_col_map)
    IN  IF shared_col_keys = <<>>
        THEN [raised |-> TRUE, error |-> <<NoCommonColumns>>,
              shared_col_keys |-> <<>>,
              src_shared_cols |-> <<>>, tgt_shared_cols |-> <<>>]
        ELSE [raised |-> FALSE,
              shared_col_keys |-> shared_col_keys,
              src_shared_cols |->
                  [n \in 1..Len(shared_col_keys) |-> src_col_map[shared_col_keys[n]]],
              tgt_shared_cols |->
                  [n \in 1..Len(shared_col_keys) |-> tgt_col_map[shared_col_keys[n]]]]

\* ''.join(c for c in col.lower() if c.isalnum())
alphanumeric(col) == SelectSeq(lower(col), IsAlnum)

\* _validate_key_columns for a non-empty key_columns; raised = TRUE stands for
\* the ValueError "Key columns not found in both dataframes".
_validate_key_columns(key_columns, shared_col_info) ==
    LET shared_col_keys == shared_col_info.shared_col_keys
        key_cols_lower  == {lower(key_columns[n]) : n \in 1..Len(key_columns)}
        exact == SelectSeq([n \in 1..Len(shared_col_keys) |-> n],
                           LAMBDA n : shared_col_keys[n] \in key_cols_lower)
        key_cols_alphanumeric ==
            {alphanumeric(key_columns[n]) : n \in 1..Len(key_columns)}
        loose == SelectSeq([n \in 1..Len(shared_col_keys) |-> n],
                           LAMBDA n : /\ alphanumeric(shared_col_keys[n])
                                            \in key_cols_alphanumeric
                                      /\ n \notin Range(exact))
        valid_key_indices ==
            IF Len(exact) < Len(key_columns) THEN exact \o loose ELSE exact
    IN  IF valid_key_indices = <<>>
        THEN [raised |-> TRUE, error |-> <<KeyColumnsNotFound>>,
              src_keys |-> <<>>, tgt_keys |-> <<>>]
        ELSE [raised |-> FALSE,
              src_keys |-> [n \in 1..Len(valid_key_indices) |->
                               shared_col_info.src_shared_cols[valid_key_indices[n]]],
              tgt_keys |-> [n \in 1..Len(valid_key_indices) |->
                               shared_col_info.tgt_shared_cols[valid_key_indices[n]]]]

(***************************************************************************)
(* Diff rows: a row plus the tag columns __source and __mismatch_type.     *)
(***************************************************************************)
Tagged(row, source, mismatch_type) ==
    [row |-> row, source |-> source, mismatch_type |-> mismatch_type]

TagAll(rows, source, mismatch_type) ==
    [n \in 1..Len(rows) |-> Tagged(rows[n], source, mismatch_type)]

\* Masked keeping, besides the rows of the mask, every row that repeats an
\* earlier row of the sequence
Masked_with_repeats(rows, keep) ==
    LET kept == SelectSeq([n \in 1..Len(rows) |-> n],
                          LAMBDA n : \/ rows[n] \in keep
                                     \/ \E m \in 1..(n - 1) : rows[m] = rows[n])
    IN  [j \in 1..Len(kept) |-> rows[kept[j]]]

\* rows of a sequence that satisfy a mask, in positional order (df.loc[mask])
RECURSIVE Masked(_, _)
Masked(rows, keep) ==
    IF rows = <<>> THEN <<>>
    ELSE (IF Head(rows) \in keep THEN <<Head(rows)>> ELSE <<>>)
         \o Masked(Tail(rows), keep)

(***************************************************************************)
(* DataComparator.df_hash_for_compare: row hash comparison of one window.  *)
(***************************************************************************)
\* hash_pandas_object over the first of the columns only
hash_pandas_object_first_col(row, cols) == <<row[cols[1]]>>

\* hash_pandas_object over the normalized values
hash_pandas_object_normalized(row, cols) ==
    [n \in 1..Len(cols) |-> normalize_key_value(row[cols[n]])]

\* pd.util.hash_pandas_object(df[cols], index=False) for one row: a hash of
\* the row's values as they are, in the order of cols.  The model takes the
\* hash to be collision-free: it is the tuple of the values itself.
hash_pandas_object(row, cols) == [n \in 1..Len(cols) |-> row[cols[n]]]

df_hash_for_compare(src_df, tgt_df) ==
    LET shared_col_info == _normalize_column_names(src_df, tgt_df)
        src_hash(r) == hash_pandas_object(r, shared_col_info.src_shared_cols)
        tgt_hash(r) == hash_pandas_object(r, shared_col_info.tgt_shared_cols)
        src_hash_set == {src_hash(r) : r \in Range(src_df.rows)}
        tgt_hash_set == {tgt_hash(r) : r \in Range(tgt_df.rows)}
        only_in_src == src_hash_set \ tgt_hash_set
        only_in_tgt == tgt_hash_set \ src_hash_set
        src_diff == Masked(src_df.rows,
                           {r \in Range(src_df.rows) : src_hash(r) \in only_in_src})
        tgt_diff == Masked(tgt_df.rows,
                           {r \in Range(tgt_df.rows) : tgt_hash(r) \in only_in_tgt})
    IN  IF shared_col_info.raised
        THEN [raised |-> TRUE, error |-> shared_col_info.error]
        ELSE [raised |-> FALSE,
              in_src_df_not_in_tgt_df |-> TagAll(src_diff, "Source", "Source-only-row"),
              in_tgt_df_not_in_src_df |-> TagAll(tgt_diff, "Target", "Target-only-row"),
              value_mismatch_df |-> <<>>,
              value_mismatches |-> 0,
              total_diff_count |-> Len(src_diff) + Len(tgt_diff),
              mismatch_details |-> EmptyDict]

(***************************************************************************)
(* DataComparator._compare_with_keys: key-based comparison of one window.  *)
(***************************************************************************)
\* the normalized key tuple of a row (__key_tuple)
key_tuple(row, cols) == [n \in 1..Len(cols) |-> normalize_key_value(row[cols[n]])]

\* value_hash without the normalization of the values
value_hash_raw(row, non_key_columns) ==
    [n \in 1..Len(non_key_columns) |->
        IF non_key_columns[n] \in DOMAIN row THEN row[non_key_columns[n]] ELSE None]

\* the value hash of a row over the non-key columns: the normalized value,
\* or None for a column the row does not have
value_hash(row, non_key_columns) ==
    [n \in 1..Len(non_key_columns) |->
        IF non_key_columns[n] \in DOMAIN row
        THEN normalize_key_value(row[non_key_columns[n]])
        ELSE None]

\* the largest number of common keys handled in one batch
batch_size == 50000

\* [keys[i:i+batch_size] for i in range(0, len(keys), batch_size)]
key_batches(keys) ==
    [b \in 1..((Len(keys) + batch_size - 1) \div batch_size) |->
        SubSeq(keys, (b - 1) * batch_size + 1, Min(b * batch_size, Len(keys)))]

\* rows of a sequence whose key tuple is key, in positional order (get_group)
get_group(rows, cols, key) ==
    SelectSeq(rows, LAMBDA r : key_tuple(r, cols) = key)

\* mismatched_cols naming every non-key column
mismatched_cols_all(h, others, non_key_columns) == Range(non_key_columns)

\* the columns in which the value hash h differs from some hash of others
mismatched_cols(h, others, non_key_columns) ==
    {non_key_columns[n] : n \in {m \in 1..Len(non_key_columns) :
                                    \E o \in others : h[m] # o[m]}}

\* the Value-Mismatch rows one common key contributes: the source rows of
\* every value hash found on the source side only, then the target rows of
\* every value hash found on the target side only
key_value_mismatches(src_rows, tgt_rows, non_key_columns) ==
    LET src_value_hashes == {value_hash(r, non_key_columns) : r \in Range(src_rows)}
        tgt_value_hashes == {value_hash(r, non_key_columns) : r \in Range(tgt_rows)}
        src_only_hashes  == SetOrder(src_value_hashes \ tgt_value_hashes)
        tgt_only_hashes  == SetOrder(tgt_value_hashes \ src_value_hashes)
        src_part == Concat([n \in 1..Len(src_only_hashes) |->
                        SelectSeq(src_rows, LAMBDA r :
                            value_hash(r, non_key_columns) = src_only_hashes[n])])
        tgt_part == Concat([n \in 1..Len(tgt_only_hashes) |->
                        SelectSeq(tgt_rows, LAMBDA r :
                            value_hash(r, non_key_columns) = tgt_only_hashes[n])])
    IN  TagAll(src_part, "Source", "Value-Mismatch")
        \o TagAll(tgt_part, "Target", "Value-Mismatch")

\* the keys that get a mismatch-detail entry, and the entry: the columns in
\* which the first source-only value hash differs from the target hashes
key_mismatch_details(common, src, tgt, key_cols, non_key_columns) ==
    LET src_hashes(k) == {value_hash(r, non_key_columns) :
                             r \in Range(get_group(src.rows, key_cols, k))}
        tgt_hashes(k) == {value_hash(r, non_key_columns) :
                             r \in Range(get_group(tgt.rows, key_cols, k))}
        with_detail == {k \in common : src_hashes(k) \ tgt_hashes(k) # {}}
    IN  [k \in with_detail |->
            mismatched_cols(SetOrder(src_hashes(k) \ tgt_hashes(k))[1],
                            tgt_hashes(k), non_key_columns)]

\* rows_with_keys keeping the first row of every key only
rows_with_keys_first(rows, key_cols, wanted) ==
    LET first == {n \in 1..Len(rows) :
                     \A m \in 1..(n - 1) :
                         key_tuple(rows[m], key_cols) # key_tuple(rows[n], key_cols)}
    IN  SelectSeq([n \in 1..Len(rows) |-> <<n, rows[n]>>],
                  LAMBDA e : /\ key_tuple(e[2], key_cols) \in wanted
                             /\ e[1] \in first)

\* df.loc[df['__key_tuple'].isin(wanted)]: every row whose key is wanted, in
\* positional order, with its position
rows_with_keys(rows, key_cols, wanted) ==
    SelectSeq([n \in 1..Len(rows) |-> <<n, rows[n]>>],
              LAMBDA e : key_tuple(e[2], key_cols) \in wanted)

\* raised = TRUE stands for the ValueError "Enhanced key-based comparison
\* failed" that wraps the KeyError of tgt_df[key_columns].
_compare_with_keys(src, tgt, key_cols) ==
    LET unique_src_keys == {key_tuple(r, key_cols) : r \in Range(src.rows)}
        unique_tgt_keys == {key_tuple(r, key_cols) : r \in Range(tgt.rows)}
        only_in_src_keys == unique_src_keys \ unique_tgt_keys
        only_in_tgt_keys == unique_tgt_keys \ unique_src_keys
        common_keys == unique_src_keys \cap unique_tgt_keys
        src_only == rows_with_keys(src.rows, key_cols, only_in_src_keys)
        tgt_only == rows_with_keys(tgt.rows, key_cols, only_in_tgt_keys)
        in_src_not_in_tgt == [n \in 1..Len(src_only) |-> src_only[n][2]]
        in_tgt_not_in_src == [n \in 1..Len(tgt_only) |-> tgt_only[n][2]]
        non_key_columns ==
            SelectSeq(src.columns, LAMBDA col : col \notin Range(key_cols))
        batches == key_batches(SetOrder(common_keys))
        batch_rows(batch) ==
            Concat([n \in 1..Len(batch) |->
                key_value_mismatches(get_group(src.rows, key_cols, batch[n]),
                                     get_group(tgt.rows, key_cols, batch[n]),
                                     non_key_columns)])
        value_mismatch_df == Concat([b \in 1..Len(batches) |-> batch_rows(batches[b])])
    IN  IF \E n \in 1..Len(key_cols) :
               key_cols[n] \notin Range(src.columns) \cap Range(tgt.columns)
        THEN [raised |-> TRUE, error |-> Wrapped(KeyComparisonFailed, <<KeyError>>)]
        ELSE [raised |-> FALSE,
              in_src_df_not_in_tgt_df |->
                  TagAll(in_src_not_in_tgt, "Source", "Source-only-row"),
              in_tgt_df_not_in_src_df |->
                  TagAll(in_tgt_not_in_src, "Target", "Target-only-row"),
              value_mismatch_df |-> value_mismatch_df,
              value_mismatches |-> Len(value_mismatch_df) \div 2,
              total_diff_count |-> Len(in_src_not_in_tgt) + Len(in_tgt_not_in_src)
                                       + Len(value_mismatch_df),
              mismatch_details |->
                  key_mismatch_details(common_keys, src, tgt, key_cols, non_key_columns)]

(***************************************************************************)
(* DataComparator.compare_dataframes.                                      *)
(***************************************************************************)
\* the default of the parameter chunk_size
default_chunk_size == 500000

\* (total_rows + chunk_size - 1) // chunk_size
chunk_count(src, tgt, chunk_size) ==
    (Max(len(src), len(tgt)) + chunk_size - 1) \div chunk_size

\* window with all rows of df in the first chunk and none in the chunks after
window_of_all_rows(df, other, idx, chunk_size) ==
    IF idx = 0 THEN df ELSE iloc(df, 0, 0)

\* the window of df for chunk idx: df.iloc[start_idx:end_idx], or no rows when
\* df ends before start_idx
window(df, other, idx, chunk_size) ==
    LET total_rows == Max(len(df), len(other))
        start_idx  == idx * chunk_size
        end_idx    == Min((idx + 1) * chunk_size, total_rows)
    IN  IF start_idx < len(df) THEN iloc(df, start_idx, end_idx) ELSE iloc(df, 0, 0)

\* validate falling back to row hash comparison when the key validation fails
validate_fallback(src, tgt, key_columns) ==
    [raised |-> FALSE,
     valid_src_keys |->
         IF key_columns = <<>> THEN <<>>
         ELSE LET shared_col_info == _normalize_column_names(src, tgt)
                  valid == _validate_key_columns(key_columns, shared_col_info)
              IN  IF shared_col_info.raised \/ valid.raised THEN <<>> ELSE valid.src_keys]

\* key column validation before the loop: the resolved source key columns,
\* <<>> when key_columns is None
validate(src, tgt, key_columns) ==
    IF key_columns = <<>>
    THEN [raised |-> FALSE, valid_src_keys |-> <<>>]
    ELSE LET shared_col_info == _normalize_column_names(src, tgt)
             valid == _validate_key_columns(key_columns, shared_col_info)
         IN  IF shared_col_info.raised
             THEN [raised |-> TRUE, error |-> shared_col_info.error,
                   valid_src_keys |-> <<>>]
             ELSE IF valid.raised
             THEN [raised |-> TRUE, error |-> valid.error, valid_src_keys |-> <<>>]
             ELSE [raised |-> FALSE, valid_src_keys |-> valid.src_keys]

\* the result containers before the first chunk
initial_acc ==
    [src_diff_chunks |-> <<>>, tgt_diff_chunks |-> <<>>,
     value_mismatch_chunks |-> <<>>,
     total_diff_count |-> 0, value_mismatch_count |-> 0]

\* chunk_result with the target window guarded by the length of the source
chunk_result_src_len_guard(src, tgt, valid_keys, idx, chunk_size) ==
    LET tgt_chunk == IF idx * chunk_size < len(src)
                     THEN window(tgt, src, idx, chunk_size)
                     ELSE iloc(tgt, 0, 0)
    IN  IF valid_keys # <<>>
        THEN _compare_with_keys(window(src, tgt, idx, chunk_size), tgt_chunk, valid_keys)
        ELSE df_hash_for_compare(window(src, tgt, idx, chunk_size), tgt_chunk)

\* chunk_result with the target dataframe not sliced into its window
chunk_result_unsliced_target(src, tgt, valid_keys, idx, chunk_size) ==
    IF valid_keys # <<>>
    THEN _compare_with_keys(window(src, tgt, idx, chunk_size), tgt, valid_keys)
    ELSE df_hash_for_compare(window(src, tgt, idx, chunk_size), tgt)

\* the comparison of chunk idx by the method the key columns select
chunk_result(src, tgt, valid_keys, idx, chunk_size) ==
    IF valid_keys # <<>>
    THEN _compare_with_keys(window(src, tgt, idx, chunk_size),
                            window(tgt, src, idx, chunk_size), valid_keys)
    ELSE df_hash_for_compare(window(src, tgt, idx, chunk_size),
                             window(tgt, src, idx, chunk_size))

\* store_results with the total assigned where the code adds to it
store_results_overwrite(a, r) ==
    [src_diff_chunks       |-> a.src_diff_chunks \o r.in_src_df_not_in_tgt_df,
     tgt_diff_chunks       |-> a.tgt_diff_chunks \o r.in_tgt_df_not_in_src_df,
     value_mismatch_chunks |-> a.value_mismatch_chunks \o r.value_mismatch_df,
     total_diff_count      |-> r.total_diff_count,
     value_mismatch_count  |->
         IF Len(r.value_mismatch_df) > 0
         THEN a.value_mismatch_count + r.value_mismatches
         ELSE a.value_mismatch_count]

\* store_results with the total of the first chunk that has differences kept
store_results_first_total(a, r) ==
    [src_diff_chunks       |-> a.src_diff_chunks \o r.in_src_df_not_in_tgt_df,
     tgt_diff_chunks       |-> a.tgt_diff_chunks \o r.in_tgt_df_not_in_src_df,
     value_mismatch_chunks |-> a.value_mismatch_chunks \o r.value_mismatch_df,
     total_diff_count      |->
         IF a.total_diff_count = 0 THEN r.total_diff_count ELSE a.total_diff_count,
     value_mismatch_count  |->
         IF Len(r.value_mismatch_df) > 0
         THEN a.value_mismatch_count + r.value_mismatches
         ELSE a.value_mismatch_count]

\* "Store results" of one chunk
store_results(a, r) ==
    [src_diff_chunks       |-> a.src_diff_chunks \o r.in_src_df_not_in_tgt_df,
     tgt_diff_chunks       |-> a.tgt_diff_chunks \o r.in_tgt_df_not_in_src_df,
     value_mismatch_chunks |-> a.value_mismatch_chunks \o r.value_mismatch_df,
     total_diff_count      |-> a.total_diff_count + r.total_diff_count,
     value_mismatch_count  |->
         IF Len(r.value_mismatch_df) > 0
         THEN a.value_mismatch_count + r.value_mismatches
         ELSE a.value_mismatch_count]

\* "Combine all differences"
combined_diffs(a) ==
    a.src_diff_chunks \o a.tgt_diff_chunks \o a.value_mismatch_chunks

\* the number of rows of a diff set with a given __mismatch_type
count_type(diffs, mismatch_type) ==
    Cardinality({n \in 1..Len(diffs) : diffs[n].mismatch_type = mismatch_type})

\* summary with the result taken from the one-sided rows alone
summary_of_one_sided(src, tgt, a) ==
    LET diffs == combined_diffs(a)
        actual_value_mismatches == count_type(diffs, "Value-Mismatch") \div 2
        final_value_mismatch_count ==
            IF count_type(diffs, "Value-Mismatch") > 0
            THEN Max(a.value_mismatch_count, actual_value_mismatches)
            ELSE a.value_mismatch_count
    IN  [total_source_rows   |-> len(src),
         total_target_rows   |-> len(tgt),
         rows_only_in_source |-> Len(a.src_diff_chunks),
         rows_only_in_target |-> Len(a.tgt_diff_chunks),
         value_mismatches    |-> final_value_mismatch_count,
         total_differences   |-> a.total_diff_count,
         comparison_result   |->
             IF Len(a.src_diff_chunks) + Len(a.tgt_diff_chunks) = 0
             THEN "Identical" ELSE "Differences found"]

\* the summary dataframe, as a record of its Metric -> Value pairs
summary(src, tgt, a) ==
    LET diffs == combined_diffs(a)
        actual_value_mismatches == count_type(diffs, "Value-Mismatch") \div 2
        final_value_mismatch_count ==
            IF count_type(diffs, "Value-Mismatch") > 0
            THEN Max(a.value_mismatch_count, actual_value_mismatches)
            ELSE a.value_mismatch_count
    IN  [total_source_rows   |-> len(src),
         total_target_rows   |-> len(tgt),
         rows_only_in_source |-> Len(a.src_diff_chunks),
         rows_only_in_target |-> Len(a.tgt_diff_chunks),
         value_mismatches    |-> final_value_mismatch_count,
         total_differences   |-> a.total_diff_count,
         comparison_result   |->
             IF a.total_diff_count = 0 THEN "Identical" ELSE "Differences found"]

\* the loop from chunk idx on, as a function of the accumulators
RECURSIVE chunk_loop(_, _, _, _, _, _)
chunk_loop(a, src, tgt, valid_keys, idx, chunk_size) ==
    IF idx >= chunk_count(src, tgt, chunk_size)
    THEN [raised |-> FALSE, acc |-> a]
    ELSE LET r == chunk_result(src, tgt, valid_keys, idx, chunk_size)
         IN  IF r.raised THEN [raised |-> TRUE, error |-> r.error, acc |-> a]
             ELSE chunk_loop(store_results(a, r), src, tgt, valid_keys,
                             idx + 1, chunk_size)

\* compare_dataframes as a function of its arguments: raised = TRUE stands
\* for the ValueError "Data comparison failed"
compare_dataframes(src, tgt, key_columns, chunk_size) ==
    LET v == validate(src, tgt, key_columns)
        l == chunk_loop(initial_acc, src, tgt, v.valid_src_keys, 0, chunk_size)
    IN  IF v.raised
        THEN [raised |-> TRUE, error |-> Wrapped(DataComparisonFailed, v.error)]
        ELSE IF l.raised
        THEN [raised |-> TRUE, error |-> Wrapped(DataComparisonFailed, l.error)]
        ELSE [raised |-> FALSE,
              df_cmp_result_data |-> combined_diffs(l.acc),
              cmp_summary_df |-> summary(src, tgt, l.acc)]

(***************************************************************************)
(* The inputs of the model.                                                *)
(***************************************************************************)
\* column names
ID == <<"i", "d">>

NAME == <<"n", "a", "m", "e">>

AMT == <<"a", "m", "t">>

\* the key column as a caller may spell it
ID_UPPER == <<"I", "D">>

Row2(id, name) == (ID :> id) @@ (NAME :> name)

Row3(id, name, amt) == (ID :> id) @@ (NAME :> name) @@ (AMT :> amt)

\* Rows over the columns id, name.  The keys "k" and "K_" normalize to the
\* same key, "j" and "h" are other keys; the names "x" and " X" are equal
\* after normalization only.  The first two rows are equal after
\* normalization and differ as stored.
NarrowRows ==
    {Row2(<<"k">>, <<"x">>), Row2(<<"K", "_">>, <<" ", "X">>),
     Row2(<<"j">>, <<"x">>), Row2(<<"h">>, <<"x">>)}

\* Rows over the columns id, name, amt.  The first three have one key and
\* any two of them differ in name (one is null), in amt, or in both.
WideRows ==
    {Row3(<<"k">>, <<"x">>, <<"1">>), Row3(<<"k">>, <<"x">>, <<"2">>),
     Row3(<<"k">>, NaN, <<"1">>), Row3(<<"j">>, <<"x">>, <<"1">>)}

SeqsUpTo(S, n) == UNION {[1..m -> S] : m \in 0..n}

NarrowFrames ==
    {[columns |-> <<ID, NAME>>, rows |-> rs] : rs \in SeqsUpTo(NarrowRows, MaxRows)}

WideFrames ==
    {[columns |-> <<ID, NAME, AMT>>, rows |-> rs] : rs \in SeqsUpTo(WideRows, MaxRows)}

\* the pairs of dataframes compared: both of the same columns
FramePairs == (NarrowFrames \X NarrowFrames) \cup (WideFrames \X WideFrames)

\* key_columns: None, or the key column in the caller's spelling
KeyColumnChoices == {<<>>, <<ID_UPPER>>}

NoSummary == <<>>

\* no other method is called
NoCall == [op |-> "none"]

NoResult == [raised |-> FALSE, returned |-> FALSE]

\* the analyzer is not called
NoAnalysis == [called |-> FALSE]

NoChunkResult == [raised |-> FALSE]

(***************************************************************************)
(* The state machine of one compare_dataframes call.                       *)
(***************************************************************************)
Init ==
    /\ \E pair \in FramePairs : arg_src = pair[1] /\ arg_tgt = pair[2]
    /\ arg_keys \in KeyColumnChoices
    /\ arg_chunk \in 1..MaxRows
    /\ hash_seed \in {0, 1}
    \* row hash comparison iterates over no set, so one seed stands for all
    /\ arg_keys = <<>> => hash_seed = 0
    /\ pc = "call"
    /\ chunks = 0
    /\ i = 0
    /\ valid_src_keys = <<>>
    /\ acc = initial_acc
    /\ last_chunk_result = NoChunkResult
    /\ mismatch_details = EmptyDict
    /\ df_cmp_result_data = <<>>
    /\ cmp_summary_df = NoSummary
    /\ error = NoError
    /\ call = NoCall
    /\ result = NoResult
    /\ analysis = NoAnalysis
    /\ comparison_summary = EmptyDict

\* compare_dataframes up to the loop: the chunk count, the key validation,
\* the result containers
Call ==
    /\ pc = "call"
    /\ LET v == validate(arg_src, arg_tgt, arg_keys)
       IN  IF v.raised
           THEN /\ pc' = "raised"
                /\ error' = Wrapped(DataComparisonFailed, v.error)
                /\ UNCHANGED <<chunks, i, valid_src_keys, acc, mismatch_details>>
           ELSE /\ pc' = "loop"
                /\ error' = NoError
                /\ chunks' = chunk_count(arg_src, arg_tgt, arg_chunk)
                /\ i' = 0
                /\ valid_src_keys' = v.valid_src_keys
                /\ acc' = initial_acc
                /\ mismatch_details' = EmptyDict
    /\ UNCHANGED <<arg_src, arg_tgt, arg_keys, arg_chunk, hash_seed,
                   last_chunk_result, df_cmp_result_data, cmp_summary_df>>
    /\ UNCHANGED <<util_vars, analyzer_vars>>

\* one iteration of the loop on the key-based branch
CompareChunkWithKeys ==
    /\ pc = "loop"
    /\ i < chunks
    /\ valid_src_keys # <<>>
    /\ LET r == chunk_result(arg_src, arg_tgt, valid_src_keys, i, arg_chunk)
       IN  IF r.raised
           THEN /\ pc' = "raised"
                /\ error' = Wrapped(DataComparisonFailed, r.error)
                /\ UNCHANGED <<i, acc, last_chunk_result, mismatch_details>>
           ELSE /\ pc' = "loop"
                /\ error' = NoError
                /\ i' = i + 1
                /\ acc' = store_results(acc, r)
                /\ last_chunk_result' = r
                /\ mismatch_details' = DictUpdate(mismatch_details, r.mismatch_details)
    /\ UNCHANGED <<arg_src, arg_tgt, arg_keys, arg_chunk, hash_seed, chunks,
                   valid_src_keys, df_cmp_result_data, cmp_summary_df>>
    /\ UNCHANGED <<util_vars, analyzer_vars>>

\* one iteration of the loop on the row hash branch
CompareChunkByHash ==
    /\ pc = "loop"
    /\ i < chunks
    /\ valid_src_keys = <<>>
    /\ LET r == chunk_result(arg_src, arg_tgt, valid_src_keys, i, arg_chunk)
       IN  IF r.raised
           THEN /\ pc' = "raised"
                /\ error' = Wrapped(DataComparisonFailed, r.error)
                /\ UNCHANGED <<i, acc, last_chunk_result>>
           ELSE /\ pc' = "loop"
                /\ error' = NoError
                /\ i' = i + 1
                /\ acc' = store_results(acc, r)
                /\ last_chunk_result' = r
    /\ UNCHANGED <<arg_src, arg_tgt, arg_keys, arg_chunk, hash_seed, chunks,
                   valid_src_keys, mismatch_details, df_cmp_result_data,
                   cmp_summary_df>>
    /\ UNCHANGED <<util_vars, analyzer_vars>>

\* after the last chunk: combine the results, build the summary, return
Combine ==
    /\ pc = "loop"
    /\ i = chunks
    /\ pc' = "returned"
    /\ df_cmp_result_data' = combined_diffs(acc)
    /\ cmp_summary_df' = summary(arg_src, arg_tgt, acc)
    /\ UNCHANGED <<arg_src, arg_tgt, arg_keys, arg_chunk, hash_seed, chunks, i,
                   valid_src_keys, acc, last_chunk_result, mismatch_details, error>>
    /\ UNCHANGED <<util_vars, analyzer_vars>>

Next == Call \/ CompareChunkWithKeys \/ CompareChunkByHash \/ Combine

Spec == Init /\ [][Next]_vars

(***************************************************************************)
(* Sanity of the model: the step-by-step run and compare_dataframes as a   *)
(* function agree.                                                         *)
(***************************************************************************)
TypeOK ==
    /\ pc \in {"call", "loop", "returned", "raised"}
    /\ i \in 0..chunks
    /\ arg_chunk >= 1
    /\ pc = "returned" =>
          LET c == compare_dataframes(arg_src, arg_tgt, arg_keys, arg_chunk)
          IN  /\ ~c.raised
              /\ c.cmp_summary_df = cmp_summary_df
              /\ c.df_cmp_result_data = df_cmp_result_data
    /\ pc = "raised" =>
          LET c == compare_dataframes(arg_src, arg_tgt, arg_keys, arg_chunk)
          IN  c.raised /\ c.error = error

(***************************************************************************)
(* Vocabulary of the properties.                                           *)
(***************************************************************************)
Returned == pc = "returned"

KeyMode == arg_keys # <<>>

HashMode == arg_keys = <<>>

\* the diff rows of a diff set with a given __mismatch_type
OfType(diffs, mismatch_type) ==
    SelectSeq(diffs, LAMBDA d : d.mismatch_type = mismatch_type)

\* the positional window (0-based index) of the n-th row under a chunk size
WindowOf(n, chunk_size) == (n - 1) \div chunk_size

\* all rows of src and tgt that share a composite key lie in one window
KeysShareWindows(src, tgt, key_cols, chunk_size) ==
    LET Keyed(df) == {<<key_tuple(df.rows[n], key_cols), WindowOf(n, chunk_size)>> :
                         n \in 1..len(df)}
    IN  \A a, b \in Keyed(src) \cup Keyed(tgt) : a[1] = b[1] => a[2] = b[2]

(***************************************************************************)
(* C1.  For every compare call that returns, in key mode and in hash mode, *)
(* total_differences = rows_only_in_source + rows_only_in_target +         *)
(* value_mismatches, where value_mismatches counts pairs.  The code adds   *)
(* the number of Value-Mismatch diff rows instead, so the statement fails: *)
(* C1_TotalIsSumOfCounts states the claim and does not hold.               *)
(***************************************************************************)
C1_TotalIsSumOfCounts ==
    Returned =>
        cmp_summary_df.total_differences =
            cmp_summary_df.rows_only_in_source + cmp_summary_df.rows_only_in_target
                + cmp_summary_df.value_mismatches

(***************************************************************************)
(* C2.  Pairing invariant: for every compare call the number of diff rows  *)
(* tagged Value-Mismatch is even and value_mismatches is half of it.  A    *)
(* key with several rows on one side yields an odd number of rows, so the  *)
(* statement fails: C2_PairingInvariant states the claim and does not     *)
(* hold.                                                                   *)
(***************************************************************************)
C2_PairingInvariant ==
    Returned =>
        LET rows == Len(OfType(df_cmp_result_data, "Value-Mismatch"))
        IN  /\ rows % 2 = 0
            /\ 2 * cmp_summary_df.value_mismatches = rows

(***************************************************************************)
(* C3.  Chunk invariance: in key mode, when all source and target rows     *)
(* that share a composite key lie in the same positional window under      *)
(* chunk size 1 (they always do under a chunk size of at least the dataset *)
(* size), the run with chunk_size = 1 returns the same summary, all six    *)
(* counts and the verdict, as compare_dataframes with the default chunk    *)
(* size, which exceeds every dataset of the model.                         *)
(***************************************************************************)
C3_ChunkInvariance ==
    (Returned /\ KeyMode /\ arg_chunk = 1
        /\ KeysShareWindows(arg_src, arg_tgt, valid_src_keys, 1)) =>
        LET whole == compare_dataframes(arg_src, arg_tgt, arg_keys, default_chunk_size)
        IN  /\ KeysShareWindows(arg_src, arg_tgt, valid_src_keys, default_chunk_size)
            /\ ~whole.raised
            /\ whole.cmp_summary_df = cmp_summary_df

\* a run over two windows with a value mismatch and a source-only row
C3_Witness ==
    /\ Returned /\ KeyMode /\ arg_chunk = 1 /\ chunks >= 2
    /\ KeysShareWindows(arg_src, arg_tgt, valid_src_keys, 1)
    /\ cmp_summary_df.value_mismatches >= 1
    /\ cmp_summary_df.rows_only_in_source >= 1

(***************************************************************************)
(* C4.  Symmetry: for any two datasets, key columns or none, and any chunk *)
(* size, rows_only_in_source of compare(A, B) equals rows_only_in_target   *)
(* of compare(B, A), and rows_only_in_target of compare(A, B) equals       *)
(* rows_only_in_source of compare(B, A).                                   *)
(***************************************************************************)
C4_Symmetry ==
    Returned =>
        LET swapped == compare_dataframes(arg_tgt, arg_src, arg_keys, arg_chunk)
        IN  /\ ~swapped.raised
            /\ cmp_summary_df.rows_only_in_source =
                   swapped.cmp_summary_df.rows_only_in_target
            /\ cmp_summary_df.rows_only_in_target =
                   swapped.cmp_summary_df.rows_only_in_source

\* a run over several windows whose two one-sided counts differ
C4_Witness ==
    /\ Returned /\ chunks >= 2
    /\ len(arg_src) < len(arg_tgt)
    /\ cmp_summary_df.rows_only_in_source >= 1
    /\ cmp_summary_df.rows_only_in_target > cmp_summary_df.rows_only_in_source

(***************************************************************************)
(* C5.  Identical-input fixed point: comparing a dataset, also one with    *)
(* duplicate keys or null values, against an exact copy of itself, in key  *)
(* mode or hash mode and for any chunk size, returns no diff rows,         *)
(* total_differences = 0 and the verdict Identical.                        *)
(***************************************************************************)
C5_IdenticalInputs ==
    (Returned /\ arg_src = arg_tgt) =>
        /\ df_cmp_result_data = <<>>
        /\ cmp_summary_df.total_differences = 0
        /\ cmp_summary_df.comparison_result = "Identical"

\* a dataset with a duplicate key and a null value compared with itself,
\* window by window
C5_Witness ==
    /\ Returned /\ arg_src = arg_tgt /\ chunks >= 2
    /\ \E m, n \in 1..len(arg_src) :
          /\ m # n
          /\ key_tuple(arg_src.rows[m], <<ID>>) = key_tuple(arg_src.rows[n], <<ID>>)
          /\ isna(arg_src.rows[m][NAME])

(***************************************************************************)
(* Vocabulary of the per-window properties.  After an iteration of the     *)
(* loop, last_chunk_result is the matcher's result for window i - 1.       *)
(***************************************************************************)
ChunkDone == pc \in {"loop", "returned"} /\ i > 0

LastSrcWindow == window(arg_src, arg_tgt, i - 1, arg_chunk)

LastTgtWindow == window(arg_tgt, arg_src, i - 1, arg_chunk)

\* the composite key of a row under the resolved key columns
KeyOf(row) == key_tuple(row, valid_src_keys)

WindowKeys(w) == {KeyOf(w.rows[n]) : n \in 1..len(w)}

\* the rows of a sequence (of rows, or of diff rows) with a composite key
RowsOfKey(rows, k) == SelectSeq(rows, LAMBDA r : KeyOf(r) = k)

DiffsOfKey(diffs, k) == SelectSeq(diffs, LAMBDA d : KeyOf(d.row) = k)

\* the non-key columns of a row with their normalized values
NonKeyNormalized(row) ==
    [c \in DOMAIN row \ Range(valid_src_keys) |-> normalize_key_value(row[c])]

\* the columns of a row with their normalized values, and as stored
Normalized(row) == [c \in DOMAIN row |-> normalize_key_value(row[c])]

AllDiffs(r) ==
    r.in_src_df_not_in_tgt_df \o r.in_tgt_df_not_in_src_df \o r.value_mismatch_df

(***************************************************************************)
(* C6.  Key-mode classification within one window: every row of a key      *)
(* present only on the source side is reported as SourceOnly and in no     *)
(* other way, every row of a key present only on the target side as        *)
(* TargetOnly and in no other way, and a key present on both sides whose   *)
(* non-key values are equal after normalization (they may differ in letter *)
(* case, whitespace or underscores) produces no diff row at all.           *)
(***************************************************************************)
C6_KeyModeClassification ==
    (ChunkDone /\ KeyMode) =>
        LET r  == last_chunk_result
            sk == WindowKeys(LastSrcWindow)
            tk == WindowKeys(LastTgtWindow)
        IN  /\ \A k \in sk \ tk :
                 /\ DiffsOfKey(AllDiffs(r), k) =
                        TagAll(RowsOfKey(LastSrcWindow.rows, k),
                               "Source", "Source-only-row")
            /\ \A k \in tk \ sk :
                 /\ DiffsOfKey(AllDiffs(r), k) =
                        TagAll(RowsOfKey(LastTgtWindow.rows, k),
                               "Target", "Target-only-row")
            /\ \A k \in sk \cap tk :
                 (\A m \in 1..len(LastSrcWindow), n \in 1..len(LastTgtWindow) :
                      (KeyOf(LastSrcWindow.rows[m]) = k
                         /\ KeyOf(LastTgtWindow.rows[n]) = k)
                      => NonKeyNormalized(LastSrcWindow.rows[m])
                             = NonKeyNormalized(LastTgtWindow.rows[n]))
                 => DiffsOfKey(AllDiffs(r), k) = <<>>

\* a window as in scenario A: a key on the source side only, a key on the
\* target side only, and a common key whose rows differ as stored and are
\* equal after normalization
C6_Witness ==
    /\ ChunkDone /\ KeyMode
    /\ WindowKeys(LastSrcWindow) \ WindowKeys(LastTgtWindow) # {}
    /\ WindowKeys(LastTgtWindow) \ WindowKeys(LastSrcWindow) # {}
    /\ \E m \in 1..len(LastSrcWindow), n \in 1..len(LastTgtWindow) :
          /\ KeyOf(LastSrcWindow.rows[m]) = KeyOf(LastTgtWindow.rows[n])
          /\ LastSrcWindow.rows[m] # LastTgtWindow.rows[n]
          /\ NonKeyNormalized(LastSrcWindow.rows[m])
                 = NonKeyNormalized(LastTgtWindow.rows[n])
    /\ Len(AllDiffs(last_chunk_result)) = 2

(***************************************************************************)
(* Vocabulary of C7: keys that occur once on each side of the whole call.  *)
(***************************************************************************)
\* the positions of the rows of df with composite key k
PositionsOf(df, k) == {n \in 1..len(df) : KeyOf(df.rows[n]) = k}

\* k occurs exactly once in the source and once in the target, and the two
\* rows differ in a non-key column after normalization
UniqueMismatch(k) ==
    /\ Cardinality(PositionsOf(arg_src, k)) = 1
    /\ Cardinality(PositionsOf(arg_tgt, k)) = 1
    /\ NonKeyNormalized(RowsOfKey(arg_src.rows, k)[1])
           # NonKeyNormalized(RowsOfKey(arg_tgt.rows, k)[1])

\* the two rows of such a key lie in the same positional window
SameWindow(k) ==
    \A m \in PositionsOf(arg_src, k), n \in PositionsOf(arg_tgt, k) :
        WindowOf(m, arg_chunk) = WindowOf(n, arg_chunk)

\* the non-key columns in which the two rows of such a key differ after
\* normalization
DifferingColumns(k) ==
    LET s == RowsOfKey(arg_src.rows, k)[1]
        t == RowsOfKey(arg_tgt.rows, k)[1]
    IN  {c \in DOMAIN s \ Range(valid_src_keys) :
            normalize_key_value(s[c]) # normalize_key_value(t[c])}

\* what the claim promises for the key k
PairReported(k) ==
    /\ DiffsOfKey(df_cmp_result_data, k) =
           <<Tagged(RowsOfKey(arg_src.rows, k)[1], "Source", "Value-Mismatch"),
             Tagged(RowsOfKey(arg_tgt.rows, k)[1], "Target", "Value-Mismatch")>>
    /\ k \in DOMAIN mismatch_details
    /\ mismatch_details[k] = DifferingColumns(k)

AllKeys == WindowKeys(arg_src) \cup WindowKeys(arg_tgt)

(***************************************************************************)
(* C7, as claimed.  When a composite key occurs exactly once on each side  *)
(* and the two rows differ in a non-key column after normalization,        *)
(* compare emits exactly 2 Value-Mismatch diff rows for the key, one       *)
(* tagged Source and one tagged Target, and the mismatch detail of the key *)
(* is the set of non-key columns whose normalized values differ.  It fails *)
(* when the two rows lie in different positional windows.                  *)
(***************************************************************************)
C7_AsClaimed ==
    (Returned /\ KeyMode) => \A k \in AllKeys : UniqueMismatch(k) => PairReported(k)

(***************************************************************************)
(* C7, amended.  When a composite key occurs exactly once on each side,    *)
(* the two rows lie in the same positional window and differ in a non-key  *)
(* column after normalization, compare emits exactly 2 Value-Mismatch diff *)
(* rows for the key, one tagged Source and one tagged Target, and the      *)
(* mismatch detail of the key is the set of non-key columns whose          *)
(* normalized values differ.                                               *)
(***************************************************************************)
C7_SameWindowPair ==
    (Returned /\ KeyMode) =>
        \A k \in AllKeys : (UniqueMismatch(k) /\ SameWindow(k)) => PairReported(k)

\* a run over two windows with such a key in the second, its rows differing
\* in one of the two non-key columns only
C7_Witness ==
    /\ Returned /\ KeyMode /\ chunks >= 2
    /\ \E k \in AllKeys :
          /\ UniqueMismatch(k) /\ SameWindow(k)
          /\ PositionsOf(arg_src, k) = {2}
          /\ DifferingColumns(k) = {AMT}

(***************************************************************************)
(* Vocabulary of C8.                                                       *)
(***************************************************************************)
\* the first row of every key of keyset, in positional order
FirstRowPerKey(w, keyset) ==
    LET first == {n \in 1..len(w) :
                     /\ KeyOf(w.rows[n]) \in keyset
                     /\ \A m \in 1..(n - 1) : KeyOf(w.rows[m]) # KeyOf(w.rows[n])}
    IN  [e \in 1..Cardinality(first) |->
            w.rows[CHOOSE n \in first : Cardinality({m \in first : m <= n}) = e]]

\* every row of a key of keyset, in positional order
EveryRowOfKeys(w, keyset) == SelectSeq(w.rows, LAMBDA row : KeyOf(row) \in keyset)

\* the number of rows of window idx of df whose key no row of the same window
\* of other has, summed from window idx on
RECURSIVE OneSidedRows(_, _, _)
OneSidedRows(df, other, idx) ==
    IF idx >= chunks THEN 0
    ELSE LET w == window(df, other, idx, arg_chunk)
             o == window(other, df, idx, arg_chunk)
         IN  Len(EveryRowOfKeys(w, WindowKeys(w) \ WindowKeys(o)))
                 + OneSidedRows(df, other, idx + 1)

(***************************************************************************)
(* C8, as claimed.  The key-based matcher emits exactly one SourceOnly     *)
(* diff row per composite key that exists only in the source, the first    *)
(* row when several source rows share the key, and likewise one TargetOnly *)
(* diff row per key that exists only in the target; so the number of       *)
(* SourceOnly rows is the number of distinct source-only keys.  The code   *)
(* emits every row of such a key.                                          *)
(***************************************************************************)
C8_AsClaimed ==
    (ChunkDone /\ KeyMode) =>
        LET r  == last_chunk_result
            sk == WindowKeys(LastSrcWindow)
            tk == WindowKeys(LastTgtWindow)
        IN  /\ r.in_src_df_not_in_tgt_df =
                   TagAll(FirstRowPerKey(LastSrcWindow, sk \ tk),
                          "Source", "Source-only-row")
            /\ r.in_tgt_df_not_in_src_df =
                   TagAll(FirstRowPerKey(LastTgtWindow, tk \ sk),
                          "Target", "Target-only-row")
            /\ Len(r.in_src_df_not_in_tgt_df) = Cardinality(sk \ tk)
            /\ Len(r.in_tgt_df_not_in_src_df) = Cardinality(tk \ sk)

(***************************************************************************)
(* C8, amended.  The key-based matcher emits one SourceOnly diff row for   *)
(* every source row of the window whose composite key exists only in the   *)
(* source (every row, not the first only, when several source rows share   *)
(* the key), and likewise one TargetOnly diff row for every target row     *)
(* whose key exists only in the target; so rows_only_in_source is the      *)
(* number of source rows with a source-only key in their window, and       *)
(* rows_only_in_target the number of such target rows.                     *)
(***************************************************************************)
C8_RowPerOneSidedRow ==
    /\ (ChunkDone /\ KeyMode) =>
          LET r  == last_chunk_result
              sk == WindowKeys(LastSrcWindow)
              tk == WindowKeys(LastTgtWindow)
          IN  /\ r.in_src_df_not_in_tgt_df =
                     TagAll(EveryRowOfKeys(LastSrcWindow, sk \ tk),
                            "Source", "Source-only-row")
              /\ r.in_tgt_df_not_in_src_df =
                     TagAll(EveryRowOfKeys(LastTgtWindow, tk \ sk),
                            "Target", "Target-only-row")
    /\ (Returned /\ KeyMode) =>
          /\ cmp_summary_df.rows_only_in_source = OneSidedRows(arg_src, arg_tgt, 0)
          /\ cmp_summary_df.rows_only_in_target = OneSidedRows(arg_tgt, arg_src, 0)

\* a window with two different source rows of one key that the target
\* window does not have: both are reported
C8_Witness ==
    /\ ChunkDone /\ KeyMode
    /\ Cardinality(WindowKeys(LastSrcWindow) \ WindowKeys(LastTgtWindow)) = 1
    /\ len(LastTgtWindow) > 0
    /\ Len(last_chunk_result.in_src_df_not_in_tgt_df) = 2
    /\ last_chunk_result.in_src_df_not_in_tgt_df[1]
           # last_chunk_result.in_src_df_not_in_tgt_df[2]

(***************************************************************************)
(* Vocabulary of the hash-mode properties.                                 *)
(***************************************************************************)
\* the lower-cased names of the columns the two dataframes share
SharedColumnKeys ==
    {lower(c) : c \in Range(arg_src.columns)} \cap {lower(c) : c \in Range(arg_tgt.columns)}

\* the values of a row in the shared columns, as stored and normalized
Stored(row) == {<<lower(c), row[c]>> : c \in {d \in DOMAIN row : lower(d) \in SharedColumnKeys}}

NormalizedShared(row) ==
    {<<lower(c), normalize_key_value(row[c])>> :
        c \in {d \in DOMAIN row : lower(d) \in SharedColumnKeys}}

\* the shared columns in which two rows differ as stored
ChangedColumns(s, t) == {e[1] : e \in Stored(s) \ Stored(t)}

(***************************************************************************)
(* C9.  Hash mode (no key columns) never emits a Value-Mismatch row and    *)
(* always reports value_mismatches = 0: every diff row is a Source row     *)
(* tagged SourceOnly or a Target row tagged TargetOnly, a source row is    *)
(* reported exactly when no target row of its window has its values, and   *)
(* likewise a target row, so that a row changed in one column appears as   *)
(* exactly one SourceOnly row plus one TargetOnly row.                     *)
(***************************************************************************)
C9_HashModeHasNoValueMismatch ==
    /\ (Returned /\ HashMode) =>
          /\ cmp_summary_df.value_mismatches = 0
          /\ \A n \in 1..Len(df_cmp_result_data) :
                <<df_cmp_result_data[n].source, df_cmp_result_data[n].mismatch_type>>
                    \in {<<"Source", "Source-only-row">>, <<"Target", "Target-only-row">>}
    /\ (ChunkDone /\ HashMode) =>
          LET r == last_chunk_result
              s == LastSrcWindow.rows
              t == LastTgtWindow.rows
          IN  /\ r.value_mismatch_df = <<>>
              /\ r.in_src_df_not_in_tgt_df =
                     TagAll(SelectSeq(s, LAMBDA row :
                                \A n \in 1..Len(t) : Stored(t[n]) # Stored(row)),
                            "Source", "Source-only-row")
              /\ r.in_tgt_df_not_in_src_df =
                     TagAll(SelectSeq(t, LAMBDA row :
                                \A n \in 1..Len(s) : Stored(s[n]) # Stored(row)),
                            "Target", "Target-only-row")

\* a window whose source row and target row differ in one column only: one
\* SourceOnly row plus one TargetOnly row
C9_Witness ==
    /\ ChunkDone /\ HashMode /\ i >= 2
    /\ len(LastSrcWindow) = 1 /\ len(LastTgtWindow) = 1
    /\ ChangedColumns(LastSrcWindow.rows[1], LastTgtWindow.rows[1]) = {AMT}
    /\ last_chunk_result.in_src_df_not_in_tgt_df =
           <<Tagged(LastSrcWindow.rows[1], "Source", "Source-only-row")>>
    /\ last_chunk_result.in_tgt_df_not_in_src_df =
           <<Tagged(LastTgtWindow.rows[1], "Target", "Target-only-row")>>

I_D == <<"i", "_", "d">>

RowOf(columns, v) == [c \in Range(columns) |-> v]

ColumnLayouts == {<<ID, NAME>>, <<ID_UPPER, NAME>>, <<NAME, AMT>>, <<AMT>>}

\* the dataframes of a layout: up to MaxRows rows, each with one value in
\* every column
LayoutFrames(columns) ==
    {[columns |-> columns, rows |-> rs] :
        rs \in SeqsUpTo({RowOf(columns, <<"k">>), RowOf(columns, <<"j">>)}, MaxRows)}

ColumnFrames == UNION {LayoutFrames(columns) : columns \in ColumnLayouts}

ColumnKeyChoices == {<<>>, <<ID_UPPER>>, <<I_D>>}

InitColumns ==
    /\ arg_src \in ColumnFrames
    /\ arg_tgt \in ColumnFrames
    /\ arg_keys \in ColumnKeyChoices
    /\ arg_chunk \in 1..MaxRows
    /\ hash_seed = 0
    /\ pc = "call"
    /\ chunks = 0
    /\ i = 0
    /\ valid_src_keys = <<>>
    /\ acc = initial_acc
    /\ last_chunk_result = NoChunkResult
    /\ mismatch_details = EmptyDict
    /\ df_cmp_result_data = <<>>
    /\ cmp_summary_df = NoSummary
    /\ error = NoError
    /\ call = NoCall
    /\ result = NoResult
    /\ analysis = NoAnalysis
    /\ comparison_summary = EmptyDict

SpecColumns == InitColumns /\ [][Next]_vars

\* no key column of the call matches a shared column, by its lower-cased
\* name or by its alphanumeric characters
NoKeyResolves ==
    /\ arg_keys # <<>>
    /\ \A n \in 1..Len(arg_keys) : \A c \in SharedColumnKeys :
          /\ lower(arg_keys[n]) # c
          /\ alphanumeric(arg_keys[n]) # alphanumeric(c)

NoOutput == df_cmp_result_data = <<>> /\ cmp_summary_df = NoSummary

C12_NoCommonColumnsFails ==
    SharedColumnKeys = {} =>
        /\ pc # "returned"
        /\ i = 0
        /\ pc = "raised" => error = <<DataComparisonFailed, NoCommonColumns>>

(***************************************************************************)
(* The other methods of DataComparator, each a function of its arguments.  *)
(* A call is a record of the method's name and its arguments; the          *)
(* comparison state stays as constructed while such a call runs.           *)
(***************************************************************************)
\* the comparator as constructed, no compare_dataframes call in progress
Idle ==
    /\ arg_src = [columns |-> <<>>, rows |-> <<>>]
    /\ arg_tgt = [columns |-> <<>>, rows |-> <<>>]
    /\ arg_keys = <<>>
    /\ arg_chunk = default_chunk_size
    /\ hash_seed = 0
    /\ pc = "idle"
    /\ chunks = 0
    /\ i = 0
    /\ valid_src_keys = <<>>
    /\ acc = initial_acc
    /\ last_chunk_result = NoChunkResult
    /\ mismatch_details = EmptyDict
    /\ df_cmp_result_data = <<>>
    /\ cmp_summary_df = NoSummary
    /\ error = NoError
    /\ analysis = NoAnalysis
    /\ comparison_summary = EmptyDict

Returns(value) == [raised |-> FALSE, returned |-> TRUE, value |-> value]

Raises(e) == [raised |-> TRUE, returned |-> FALSE, error |-> e]

(***************************************************************************)
(* DataComparator.compare_column_structure.                                *)
(***************************************************************************)
\* the largest number of columns of a dataframe whose structure is compared
MaxCols == 3

\* compare_column_structure with the flag comparing the names
compare_column_structure_by_names(src_df, tgt_df) ==
    LET src_col_list == src_df.columns
        tgt_col_list == tgt_df.columns
    IN  [flag        |-> Range(src_col_list) = Range(tgt_col_list),
         non_match_a |-> Range(src_col_list) \ Range(tgt_col_list),
         non_match_b |-> Range(tgt_col_list) \ Range(src_col_list)]

\* the returned tuple (flag, non_match_a, non_match_b) as a record
compare_column_structure(src_df, tgt_df) ==
    LET src_col_list == src_df.columns
        tgt_col_list == tgt_df.columns
    IN  [flag        |-> Len(src_col_list) = Len(tgt_col_list),
         non_match_a |-> Range(src_col_list) \ Range(tgt_col_list),
         non_match_b |-> Range(tgt_col_list) \ Range(src_col_list)]

\* dataframes of up to MaxCols columns named id, ID or name, without rows
StructureFrames ==
    {[columns |-> cs, rows |-> <<>>] : cs \in SeqsUpTo({ID, ID_UPPER, NAME}, MaxCols)}

InitStructure ==
    /\ Idle
    /\ call \in [op : {"compare_column_structure"},
                 src_df : StructureFrames, tgt_df : StructureFrames]
    /\ result = NoResult

CompareColumnStructure ==
    /\ call.op = "compare_column_structure"
    /\ result = NoResult
    /\ result' = Returns(compare_column_structure(call.src_df, call.tgt_df))
    /\ UNCHANGED <<call, compare_vars, analyzer_vars>>

NextStructure == CompareColumnStructure

SpecStructure == InitStructure /\ [][NextStructure]_vars

(***************************************************************************)
(* C13.  compare_structure returns columns_match = TRUE exactly when the   *)
(* two column lists have the same number of columns, whatever their names, *)
(* together with source_only = the columns in source but not in target and *)
(* target_only = the columns in target but not in source.                  *)
(***************************************************************************)
C13_ColumnsMatchIsEqualCount ==
    (call.op = "compare_column_structure" /\ result.returned) =>
        LET src_cols == call.src_df.columns
            tgt_cols == call.tgt_df.columns
        IN  /\ result.value.flag <=> (Len(src_cols) = Len(tgt_cols))
            /\ \A c \in Range(src_cols) \cup Range(tgt_cols) :
                  /\ c \in result.value.non_match_a <=>
                         (\E n \in 1..Len(src_cols) : src_cols[n] = c)
                             /\ (\A n \in 1..Len(tgt_cols) : tgt_cols[n] # c)
                  /\ c \in result.value.non_match_b <=>
                         (\E n \in 1..Len(tgt_cols) : tgt_cols[n] = c)
                             /\ (\A n \in 1..Len(src_cols) : src_cols[n] # c)
            /\ result.value.non_match_a \cup result.value.non_match_b
                   \subseteq Range(src_cols) \cup Range(tgt_cols)

\* the columns match although each side has a column the other has not
C13_Witness ==
    /\ call.op = "compare_column_structure" /\ result.returned
    /\ result.value.flag
    /\ result.value.non_match_a # {}
    /\ result.value.non_match_b # {}

(***************************************************************************)
(* DataComparator.check_threshold.  A float is a fraction <<numerator,     *)
(* denominator>> with a positive denominator.  The counts of the model are *)
(* small integers and its thresholds are multiples of 1/4, for which the   *)
(* float operations of the code are exact.                                 *)
(***************************************************************************)
\* the largest record count
MaxCount == 5

\* float(n) of an integer; the thresholds of the model are floats already,
\* which float() returns as they are
float(n) == <<n, 1>>

FloatMul(x, y) == <<x[1] * y[1], x[2] * y[2]>>

FloatSub(x, y) == <<x[1] * y[2] - y[1] * x[2], x[2] * y[2]>>

FloatAbs(x) == <<IF x[1] < 0 THEN -x[1] ELSE x[1], x[2]>>

FloatEq(x, y) == x[1] * y[2] = y[1] * x[2]

FloatLeq(x, y) == x[1] * y[2] <= y[1] * x[2]

\* check_threshold with the threshold value taken from the source count
check_threshold_of_source(src_rec_count, tgt_rec_count, threshold_percentage) ==
    LET src_count == float(src_rec_count)
        tgt_count == float(tgt_rec_count)
        threshold == threshold_percentage
        threshold_value == FloatMul(src_count, threshold)
    IN  IF FloatEq(src_count, tgt_count)
        THEN <<TRUE, "Record Count Match Exactly">>
        ELSE IF FloatLeq(FloatAbs(FloatSub(src_count, tgt_count)), FloatAbs(threshold_value))
        THEN <<TRUE, "Record Count Match, with acceptable threshold">>
        ELSE <<FALSE, "Record Count Mismatch">>

check_threshold(src_rec_count, tgt_rec_count, threshold_percentage) ==
    LET src_count == float(src_rec_count)
        tgt_count == float(tgt_rec_count)
        threshold == threshold_percentage
        threshold_value == FloatMul(tgt_count, threshold)
    IN  IF FloatEq(src_count, tgt_count)
        THEN <<TRUE, "Record Count Match Exactly">>
        ELSE IF FloatLeq(FloatAbs(FloatSub(src_count, tgt_count)), FloatAbs(threshold_value))
        THEN <<TRUE, "Record Count Match, with acceptable threshold">>
        ELSE <<FALSE, "Record Count Mismatch">>

\* thresholds 0, 0.25, 0.5, 1.0 and 1.5
Thresholds == {<<0, 1>>, <<1, 4>>, <<1, 2>>, <<1, 1>>, <<3, 2>>}

InitThreshold ==
    /\ Idle
    /\ call \in [op : {"check_threshold"},
                 src_rec_count : 0..MaxCount, tgt_rec_count : 0..MaxCount,
                 threshold_percentage : Thresholds]
    /\ result = NoResult

CheckThreshold ==
    /\ call.op = "check_threshold"
    /\ result = NoResult
    /\ result' = Returns(check_threshold(call.src_rec_count, call.tgt_rec_count,
                                         call.threshold_percentage))
    /\ UNCHANGED <<call, compare_vars, analyzer_vars>>

NextThreshold == CheckThreshold

SpecThreshold == InitThreshold /\ [][NextThreshold]_vars

\* |source_count - target_count|
CountGap == IF call.src_rec_count >= call.tgt_rec_count
            THEN call.src_rec_count - call.tgt_rec_count
            ELSE call.tgt_rec_count - call.src_rec_count

\* gap <= fraction * count, for the fraction of the call
WithinFractionOf(count) ==
    CountGap * call.threshold_percentage[2] <= call.threshold_percentage[1] * count

(***************************************************************************)
(* C14.  within_threshold(source_count, target_count, fraction), for non-  *)
(* negative counts and fraction, returns passed with the exact match       *)
(* outcome when the counts are equal; otherwise passed (within threshold)  *)
(* iff |source_count - target_count| <= fraction * target_count; otherwise *)
(* failed with the count mismatch outcome.  The tolerance is measured      *)
(* against the target count only.                                          *)
(***************************************************************************)
C14_ThresholdAgainstTarget ==
    (call.op = "check_threshold" /\ result.returned) =>
        /\ call.src_rec_count = call.tgt_rec_count =>
               result.value = <<TRUE, "Record Count Match Exactly">>
        /\ (call.src_rec_count # call.tgt_rec_count
                /\ WithinFractionOf(call.tgt_rec_count)) =>
               result.value = <<TRUE, "Record Count Match, with acceptable threshold">>
        /\ (call.src_rec_count # call.tgt_rec_count
                /\ ~WithinFractionOf(call.tgt_rec_count)) =>
               result.value = <<FALSE, "Record Count Mismatch">>

\* a gap within the fraction of the source count and not of the target count
\* fails
C14_Witness ==
    /\ call.op = "check_threshold" /\ result.returned
    /\ WithinFractionOf(call.src_rec_count)
    /\ ~WithinFractionOf(call.tgt_rec_count)
    /\ result.value = <<FALSE, "Record Count Mismatch">>

(***************************************************************************)
(* find_key_columns and DataComparator.check_duplicates.  The argument     *)
(* key_columns is a record: [is_none |-> TRUE] for None, or [is_none |->   *)
(* FALSE, list |-> the column names].  The returned dataframe is the       *)
(* sequence of its rows, each a record of the row's index in df, the row,  *)
(* and the column duplicate_group where the code adds it.                  *)
(***************************************************************************)
\* the largest number of rows of a dataframe checked for duplicates
MaxDupRows == 4

KeyColumnsNotInDataFrame == "Key columns not found in DataFrame"

\* the actual column a key column name stands for, as a list of no or one
\* name: the name itself, else the first column equal to it in lower case,
\* else the first column equal to it without separators
find_key_column(columns, key_col) ==
    LET same_case == SelectSeq(columns, LAMBDA col : col = key_col)
        any_case  == SelectSeq(columns, LAMBDA col : lower(col) = lower(key_col))
        norm_key  == RemoveSeparators(lower(key_col))
        loose     == SelectSeq(columns, LAMBDA col : RemoveSeparators(lower(col)) = norm_key)
    IN  IF same_case # <<>> THEN <<key_col>>
        ELSE IF any_case # <<>> THEN <<any_case[1]>>
        ELSE IF loose # <<>> THEN <<loose[1]>>
        ELSE <<>>

find_key_columns(df, key_columns) ==
    Concat([n \in 1..Len(key_columns) |-> find_key_column(df.columns, key_columns[n])])

\* the values of a row in the columns of subset
subset_values(row, subset) == [n \in 1..Len(subset) |-> row[subset[n]]]

\* df.duplicated(keep='first'): the rows that repeat an earlier row
duplicated_keep_first(df, subset) ==
    {n \in 1..len(df) :
        \E m \in 1..(n - 1) :
            subset_values(df.rows[m], subset) = subset_values(df.rows[n], subset)}

\* df.duplicated(subset=subset, keep=False): the indexes of the rows whose
\* values in the columns of subset are those of another row
duplicated(df, subset) ==
    {n \in 1..len(df) :
        \E m \in 1..len(df) :
            /\ m # n
            /\ subset_values(df.rows[m], subset) = subset_values(df.rows[n], subset)}

\* the order of the group keys (tuples of strings) under groupby's sort
RECURSIVE TupleLess(_, _)
TupleLess(s, t) ==
    IF t = <<>> THEN FALSE
    ELSE IF s = <<>> THEN TRUE
    ELSE IF Head(s) = Head(t) THEN TupleLess(Tail(s), Tail(t))
    ELSE StrLess(Head(s), Head(t))

\* groupby(key_columns).ngroup(): the number of a key among the sorted keys
ngroup(group_keys, key) == Cardinality({k \in group_keys : TupleLess(k, key)})

check_duplicates(df, key_columns) ==
    IF key_columns.is_none
    THEN LET dup == duplicated(df, df.columns)
         IN  Returns(SelectSeq([n \in 1..len(df) |-> [index |-> n, row |-> df.rows[n]]],
                               LAMBDA e : e.index \in dup))
    ELSE LET actual_key_columns == find_key_columns(df, key_columns.list)
             dup == duplicated(df, key_columns.list)
             group_keys == {subset_values(df.rows[n], key_columns.list) : n \in dup}
         IN  IF actual_key_columns = <<>>
             THEN Raises(<<KeyColumnsNotInDataFrame>>)
             ELSE IF \E n \in 1..Len(key_columns.list) :
                        key_columns.list[n] \notin Range(df.columns)
             THEN Raises(<<KeyError>>)
             ELSE Returns(SelectSeq(
                      [n \in 1..len(df) |->
                          [index |-> n, row |-> df.rows[n],
                           duplicate_group |->
                               ngroup(group_keys,
                                      subset_values(df.rows[n], key_columns.list))]],
                      LAMBDA e : e.index \in dup))

\* rows over id, name: two rows of the key k that differ in name (one null)
\* and a row of the key j
DupRows == {Row2(<<"k">>, <<"x">>), Row2(<<"k">>, NaN), Row2(<<"j">>, <<"x">>)}

DupFrames ==
    {[columns |-> <<ID, NAME>>, rows |-> rs] : rs \in SeqsUpTo(DupRows, MaxDupRows)}

\* key_columns: None, the key column as the dataframe spells it, in another
\* spelling, and a column the dataframe does not have
DupKeyColumns ==
    {[is_none |-> TRUE], [is_none |-> FALSE, list |-> <<ID>>],
     [is_none |-> FALSE, list |-> <<ID_UPPER>>], [is_none |-> FALSE, list |-> <<AMT>>]}

InitDuplicates ==
    /\ Idle
    /\ call \in {[op |-> "check_duplicates", df |-> df, key_columns |-> kc] :
                    df \in DupFrames, kc \in DupKeyColumns}
    /\ result = NoResult

CheckDuplicates ==
    /\ call.op = "check_duplicates"
    /\ result = NoResult
    /\ result' = check_duplicates(call.df, call.key_columns)
    /\ UNCHANGED <<call, compare_vars, analyzer_vars>>

NextDuplicates == CheckDuplicates

SpecDuplicates == InitDuplicates /\ [][NextDuplicates]_vars

\* the columns the call looks for duplicates in
DupCheckColumns ==
    IF call.key_columns.is_none THEN call.df.columns ELSE call.key_columns.list

\* the key of the n-th row of the dataframe of the call
DupKey(n) == {<<c, call.df.rows[n][c]>> : c \in Range(DupCheckColumns)}

\* the indexes of the rows whose key occurs in more than one row
RepeatedRows ==
    {n \in 1..len(call.df) : \E m \in 1..len(call.df) : m # n /\ DupKey(m) = DupKey(n)}

\* the call returned exactly the rows whose key is repeated, in their order
ReturnsRepeatedRows ==
    /\ {result.value[n].index : n \in 1..Len(result.value)} = RepeatedRows
    /\ \A n \in 1..Len(result.value) :
          /\ result.value[n].row = call.df.rows[result.value[n].index]
          /\ \A m \in 1..(n - 1) : result.value[m].index < result.value[n].index

\* every returned row carries a group id, the same for two rows iff they
\* share the key
GroupIdsFollowKeys ==
    /\ \A n \in 1..Len(result.value) : "duplicate_group" \in DOMAIN result.value[n]
    /\ \A n, m \in 1..Len(result.value) :
          result.value[n].duplicate_group = result.value[m].duplicate_group
              <=> DupKey(result.value[n].index) = DupKey(result.value[m].index)

C15_WitnessWholeRow ==
    /\ call.op = "check_duplicates" /\ result.returned
    /\ call.key_columns.is_none
    /\ Len(result.value) = 2 /\ len(call.df) = 3
    /\ result.value[1].row[NAME] = NaN

(***************************************************************************)
(* compare_values and DataDiff: the analyzer of a diff set.  The diff set  *)
(* is the sequence of diff rows compare_dataframes returned (an empty      *)
(* sequence is the dataframe without columns it returns for no             *)
(* difference).  The values of the model are strings and nulls.  The       *)
(* column __key_tuple the key-based diff rows carry holds the same tuple   *)
(* on both sides of a common key and never counts as a mismatch; the model *)
(* leaves it out.  No Excel file is written (output_file is None).         *)
(***************************************************************************)
\* the largest cap of an analysis
MaxCap == 1

\* the largest number of rows of a dataframe whose comparison is analyzed
MaxDiffRows == 2

\* compare_values on strings and nulls
compare_values(src_val, tgt_val) ==
    IF isna(src_val) /\ isna(tgt_val) THEN TRUE
    ELSE IF isna(src_val) \/ isna(tgt_val) THEN FALSE
    ELSE lower(src_val) = lower(tgt_val)

\* the column __source exists in every dataframe that has diff rows
_find_source_column(df) == IF df = <<>> THEN <<>> ELSE <<"__source">>

\* the rows tagged Source and the rows tagged Target
_separate_source_target_rows(df) ==
    [source_rows |-> SelectSeq(df, LAMBDA d : d.source = "Source"),
     target_rows |-> SelectSeq(df, LAMBDA d : d.source = "Target")]

\* create_composite_keys: the rows with their normalized key tuple __key
create_composite_keys(rows, key_columns) ==
    [n \in 1..Len(rows) |->
        [row           |-> rows[n].row,
         source        |-> rows[n].source,
         mismatch_type |-> rows[n].mismatch_type,
         key           |-> [m \in 1..Len(key_columns) |->
                               normalize_key_value(rows[n].row[key_columns[m]])]]]

\* set(rows['__key'])
keys_of(rows) == {d.key : d \in Range(rows)}

\* rows[rows['__key'] == key]
rows_of_key(rows, key) == SelectSeq(rows, LAMBDA d : d.key = key)

\* the rows with the tags they came with
KeepTags(rows, mismatch_type) == rows

\* row_copy['__mismatch_type'] = mismatch_type, for each of the rows
Retagged(rows, mismatch_type) ==
    [n \in 1..Len(rows) |-> [rows[n] EXCEPT !.mismatch_type = mismatch_type]]

\* result_df.sort_values(by=key_columns), equal keys in their order
RECURSIVE sort_values(_, _)
sort_values(rows, key_columns) ==
    IF rows = <<>> THEN <<>>
    ELSE LET least == CHOOSE n \in 1..Len(rows) :
                 /\ \A m \in 1..Len(rows) :
                       ~TupleLess(subset_values(rows[m].row, key_columns),
                                  subset_values(rows[n].row, key_columns))
                 /\ \A m \in 1..(n - 1) :
                       TupleLess(subset_values(rows[n].row, key_columns),
                                 subset_values(rows[m].row, key_columns))
             rest == [m \in 1..(Len(rows) - 1) |->
                         IF m < least THEN rows[m] ELSE rows[m + 1]]
         IN  <<rows[least]>> \o sort_values(rest, key_columns)

\* list(keys)[:cap]: the first keys in the iteration order of the set
first_keys(keys, cap) == SubSeq(SetOrder(keys), 1, Min(cap, Cardinality(keys)))

\* the columns compared: those of the rows that are no key column
non_key_cols(source_rows, target_rows, key_columns) ==
    (IF source_rows # <<>> THEN DOMAIN source_rows[1].row
     ELSE IF target_rows # <<>> THEN DOMAIN target_rows[1].row
     ELSE {}) \ Range(key_columns)

\* a source row and a target row of the key differ in a compared column
key_mismatches(source_rows, target_rows, cols, key) ==
    \E s \in Range(source_rows), t \in Range(target_rows) :
        /\ s.key = key
        /\ t.key = key
        /\ \E col \in cols : ~compare_values(s.row[col], t.row[col])

\* the loop over the common keys: the keys with a mismatch, in the iteration
\* order of the set, until mismatch_count reaches max_value_mismatches
value_mismatch_keys(source_rows, target_rows, cols, max_value_mismatches) ==
    LET all == SelectSeq(SetOrder(keys_of(source_rows) \cap keys_of(target_rows)),
                         LAMBDA key : key_mismatches(source_rows, target_rows, cols, key))
    IN  SubSeq(all, 1, Min(max_value_mismatches, Len(all)))

\* "Add ALL rows for value mismatches"
value_mismatch_rows(source_rows, target_rows, keys) ==
    Concat([n \in 1..Len(keys) |->
        Retagged(rows_of_key(source_rows, keys[n]), "Value-Mismatch")
        \o Retagged(rows_of_key(target_rows, keys[n]), "Value-Mismatch")])

\* the first row (iloc[0]) of each key, tagged
first_rows(rows, keys, mismatch_type) ==
    [n \in 1..Len(keys) |-> Retagged(rows_of_key(rows, keys[n]), mismatch_type)[1]]

\* _process_mismatches: result_df.  The dictionary it returns besides is read
\* for source_only_keys and target_only_keys, and for the Excel export.
_process_mismatches(source_rows, target_rows, key_columns, source_col, max_value_mismatches, max_source_only, max_target_only) ==
    sort_values(
        value_mismatch_rows(
            source_rows, target_rows,
            value_mismatch_keys(source_rows, target_rows,
                                non_key_cols(source_rows, target_rows, key_columns),
                                max_value_mismatches))
        \o first_rows(source_rows,
                      first_keys(keys_of(source_rows) \ keys_of(target_rows),
                                 max_source_only),
                      "Source-only-row")
        \o first_rows(target_rows,
                      first_keys(keys_of(target_rows) \ keys_of(source_rows),
                                 max_target_only),
                      "Target-only-row"),
        key_columns)

\* cmp_summary_df as dict(zip(Metric, Value)): summary_dict.get(name, 0)
Metric(summary_dict, name) ==
    IF name \in DOMAIN summary_dict THEN summary_dict[name] ELSE 0

\* the number of rows of a result with a given __mismatch_type (value_counts)
mismatch_counts(result_df, mismatch_type) ==
    Cardinality({n \in 1..Len(result_df) : result_df[n].mismatch_type = mismatch_type})

\* a reconciled count that prefers the provided count that is not zero
final_count_prefer_provided(count, provided_count) ==
    IF provided_count > 0 THEN provided_count ELSE count

\* final_x = x_count if x_count > 0 else provided_x
final_count(count, provided_count) ==
    IF count > 0 THEN count ELSE provided_count

\* self.comparison_summary of a call with a summary
reconciled_summary(summary_dict, value_mismatch_count, source_only_count, target_only_count, final_value_mismatches, final_source_only, final_target_only) ==
    [total_source_rows   |-> summary_dict.total_source_rows,
     total_target_rows   |-> summary_dict.total_target_rows,
     comparison_result   |->
         IF final_value_mismatches + final_source_only + final_target_only > 0
         THEN "Differences found" ELSE "Identical",
     rows_only_in_source |-> final_source_only,
     rows_only_in_target |-> final_target_only,
     value_mismatches    |-> final_value_mismatches,
     total_differences   |-> final_value_mismatches + final_source_only + final_target_only,
     value_mismatches_in_output |-> value_mismatch_count,
     source_only_in_output |-> source_only_count,
     target_only_in_output |-> target_only_count]

\* self.comparison_summary of a call without a summary
calculated_summary(total_source_count, total_target_count, value_mismatch_count, source_only_count, target_only_count) ==
    [total_source_rows   |-> total_source_count,
     total_target_rows   |-> total_target_count,
     comparison_result   |->
         IF value_mismatch_count + source_only_count + target_only_count > 0
         THEN "Differences found" ELSE "Identical",
     rows_only_in_source |-> source_only_count,
     rows_only_in_target |-> target_only_count,
     value_mismatches    |-> value_mismatch_count,
     total_differences   |-> value_mismatch_count + source_only_count + target_only_count,
     value_mismatches_in_output |-> value_mismatch_count,
     source_only_in_output |-> source_only_count,
     target_only_in_output |-> target_only_count]

\* _generate_summary_stats from the counts of the result: the new
\* self.comparison_summary and the returned statistics.  provided is <<>> for
\* None, else <<the summary as a dict>>.
summary_of_counts(total_source_count, total_target_count, total_records, records_in_output, value_mismatch_count, source_only_count, target_only_count, provided) ==
    [comparison_summary |->
         IF provided # <<>>
         THEN reconciled_summary(
                  provided[1], value_mismatch_count, source_only_count, target_only_count,
                  final_count(value_mismatch_count, Metric(provided[1], "value_mismatches")),
                  final_count(source_only_count, Metric(provided[1], "rows_only_in_source")),
                  final_count(target_only_count, Metric(provided[1], "rows_only_in_target")))
         ELSE calculated_summary(total_source_count, total_target_count,
                                 value_mismatch_count, source_only_count,
                                 target_only_count),
     summary_stats |->
         [total_records      |-> total_records,
          rows_only_in_src   |-> source_only_count,
          rows_only_in_tgt   |-> target_only_count,
          value_mismatches   |-> value_mismatch_count,
          records_in_output  |-> records_in_output,
          total_differences  |-> value_mismatch_count + source_only_count
                                     + target_only_count]]

_generate_summary_stats(source_rows, target_rows, result_df, mismatch_df, provided) ==
    summary_of_counts(Len(source_rows), Len(target_rows), Len(mismatch_df),
                      Len(result_df),
                      mismatch_counts(result_df, "Value-Mismatch") \div 2,
                      mismatch_counts(result_df, "Source-only-row"),
                      mismatch_counts(result_df, "Target-only-row"),
                      provided)

\* the result when the processing left it empty: the first rows of the keys on
\* one side only, added by hand up to the cap, the source side first
manual_rows(result_df, source_rows, target_rows, max_source_only, max_target_only) ==
    IF result_df # <<>> THEN result_df
    ELSE IF first_keys(keys_of(source_rows) \ keys_of(target_rows), max_source_only) # <<>>
    THEN first_rows(source_rows,
                    first_keys(keys_of(source_rows) \ keys_of(target_rows), max_source_only),
                    "Source-only-row")
    ELSE first_rows(target_rows,
                    first_keys(keys_of(target_rows) \ keys_of(source_rows), max_target_only),
                    "Target-only-row")

\* "Check if result_df is still empty but we expect mismatches from summary
\* data": the raw source rows, the raw target rows or the whole input
summary_fallback(result_df, source_rows, target_rows, mismatch_df, provided) ==
    IF result_df = <<>> /\ provided # <<>>
    THEN IF Metric(provided[1], "rows_only_in_source") > 0 /\ source_rows # <<>>
         THEN source_rows
         ELSE IF Metric(provided[1], "rows_only_in_target") > 0 /\ target_rows # <<>>
         THEN target_rows
         ELSE IF source_rows # <<>> \/ target_rows # <<>>
         THEN mismatch_df
         ELSE result_df
    ELSE result_df

\* "Remove internal columns": the rows without __key
drop_key(rows) ==
    [n \in 1..Len(rows) |->
        [row           |-> rows[n].row,
         source        |-> rows[n].source,
         mismatch_type |-> rows[n].mismatch_type]]

SourceColumnNotFound == "Source column not found and dataframe is empty"

NoKeyColumnsFound == "No key columns were found"

\* a return of (None, {"error": message}): self.comparison_summary is as it was
ReturnsNone(message, old_comparison_summary) ==
    [returned_none |-> TRUE,
     result_df |-> <<>>,
     summary_stats |-> [error |-> message],
     comparison_summary |-> old_comparison_summary]

\* steps 6 and 8: the statistics and the return
analyzed(result_df, stats) ==
    [returned_none |-> FALSE,
     result_df |-> drop_key(result_df),
     summary_stats |-> stats.summary_stats,
     comparison_summary |-> stats.comparison_summary]

\* step 6 on the result of step 5
categorized(mismatch_df, source_rows, target_rows, result_df, provided) ==
    analyzed(result_df,
             _generate_summary_stats(source_rows, target_rows, result_df,
                                     mismatch_df, provided))

\* step 5 and the handling of an empty result, on the rows with their keys
analyze_rows(mismatch_df, source_rows, target_rows, actual_key_columns, max_value_mismatches, max_source_only, max_target_only, provided) ==
    categorized(
        mismatch_df, source_rows, target_rows,
        summary_fallback(
            manual_rows(
                _process_mismatches(source_rows, target_rows, actual_key_columns,
                                    "__source", max_value_mismatches,
                                    max_source_only, max_target_only),
                source_rows, target_rows, max_source_only, max_target_only),
            source_rows, target_rows, mismatch_df, provided),
        provided)

\* steps 2 to 4: a summary that counts no row on one side only gives no
\* placeholder key
analyze_with_keys(mismatch_df, actual_key_columns, max_value_mismatches, max_source_only, max_target_only, provided, old_comparison_summary) ==
    IF actual_key_columns = <<>>
    THEN ReturnsNone(NoKeyColumnsFound, old_comparison_summary)
    ELSE analyze_rows(
             mismatch_df,
             create_composite_keys(_separate_source_target_rows(mismatch_df).source_rows,
                                   actual_key_columns),
             create_composite_keys(_separate_source_target_rows(mismatch_df).target_rows,
                                   actual_key_columns),
             actual_key_columns, max_value_mismatches, max_source_only,
             max_target_only, provided)

\* analyze_and_categorize_mismatches: the returned pair as result_df and
\* summary_stats, and the value of self.comparison_summary after the call.
\* An empty mismatch_df has no columns; the summary of its comparison counts
\* no row, so that no placeholder row is made for it.
analyze_and_categorize_mismatches(mismatch_df, key_columns, max_value_mismatches, max_source_only, max_target_only, provided, old_comparison_summary) ==
    IF _find_source_column(mismatch_df) = <<>>
    THEN ReturnsNone(SourceColumnNotFound, old_comparison_summary)
    ELSE analyze_with_keys(
             mismatch_df,
             find_key_columns([columns |-> Enumerate(DOMAIN mismatch_df[1].row)],
                              key_columns),
             max_value_mismatches, max_source_only, max_target_only, provided,
             old_comparison_summary)

(***************************************************************************)
(* The state machine of a comparison by keys followed by one call of       *)
(* analyze_and_categorize_mismatches on its diff rows, by the same key     *)
(* columns, with or without the comparison's summary.                      *)
(***************************************************************************)
\* Rows over the columns id, name, amt: two of key "k" that differ in amt,
\* and one of key "j".
AnalyzeRows ==
    {Row3(<<"k">>, <<"x">>, <<"1">>), Row3(<<"k">>, <<"x">>, <<"2">>),
     Row3(<<"j">>, <<"x">>, <<"1">>)}

AnalyzeFrames ==
    {[columns |-> <<ID, NAME, AMT>>, rows |-> rs] : rs \in SeqsUpTo(AnalyzeRows, MaxDiffRows)}

InitAnalyze ==
    /\ arg_src \in AnalyzeFrames
    /\ arg_tgt \in AnalyzeFrames
    /\ arg_keys = <<ID_UPPER>>
    /\ arg_chunk \in 1..MaxDiffRows
    /\ hash_seed \in {0, 1}
    /\ pc = "call"
    /\ chunks = 0
    /\ i = 0
    /\ valid_src_keys = <<>>
    /\ acc = initial_acc
    /\ last_chunk_result = NoChunkResult
    /\ mismatch_details = EmptyDict
    /\ df_cmp_result_data = <<>>
    /\ cmp_summary_df = NoSummary
    /\ error = NoError
    /\ call = NoCall
    /\ result = NoResult
    /\ analysis = NoAnalysis
    /\ comparison_summary = EmptyDict

\* the state after a call that returned a
AnalyzeReturns(max_value_mismatches, max_source_only, max_target_only, provided, a) ==
    /\ analysis' =
           [called |-> TRUE,
            mismatch_df |-> df_cmp_result_data,
            max_value_mismatches |-> max_value_mismatches,
            max_source_only |-> max_source_only,
            max_target_only |-> max_target_only,
            cmp_summary_df |-> provided,
            returned_none |-> a.returned_none,
            result_df |-> a.result_df,
            summary_stats |-> a.summary_stats]
    /\ comparison_summary' = a.comparison_summary

\* one call of analyze_and_categorize_mismatches(df_cmp_result_data, key_columns,
\* None, max_value_mismatches, max_source_only, max_target_only, cmp_summary_df)
Analyze ==
    /\ pc = "returned"
    /\ analysis = NoAnalysis
    /\ \E max_value_mismatches, max_source_only, max_target_only \in 0..MaxCap,
          provided \in {<<>>, <<cmp_summary_df>>} :
          AnalyzeReturns(max_value_mismatches, max_source_only, max_target_only, provided,
                   analyze_and_categorize_mismatches(
                       df_cmp_result_data, arg_keys, max_value_mismatches,
                       max_source_only, max_target_only, provided, comparison_summary))
    /\ UNCHANGED <<compare_vars, util_vars>>

NextAnalyze == Call \/ CompareChunkWithKeys \/ Combine \/ Analyze

SpecAnalyze == InitAnalyze /\ [][NextAnalyze]_vars

(***************************************************************************)
(* The vocabulary of the claims on the analyzer.                           *)
(***************************************************************************)
\* the analyzer was called and returned a categorized output
Categorized == analysis.called /\ ~analysis.returned_none

\* the pairs of Value-Mismatch rows of the output
ValueMismatchPairs == mismatch_counts(analysis.result_df, "Value-Mismatch") \div 2

SourceOnlyRows == mismatch_counts(analysis.result_df, "Source-only-row")

TargetOnlyRows == mismatch_counts(analysis.result_df, "Target-only-row")

\* C16: the categorized output of analyze holds at most max_value_mismatches
\* pairs of Value-Mismatch rows, at most max_source_only Source-only rows and
\* at most max_target_only Target-only rows, whatever the diff rows, the caps
\* and the summary.  The code does not keep this: with a summary that counts
\* rows on one side only and a result left empty by the caps, the raw rows of
\* that side are returned uncapped, and all rows of a key with a value
\* mismatch are added whatever their number.
C16_OutputWithinCaps ==
    Categorized =>
        /\ ValueMismatchPairs <= analysis.max_value_mismatches
        /\ SourceOnlyRows <= analysis.max_source_only
        /\ TargetOnlyRows <= analysis.max_target_only

\* the composite keys of the input rows of a side
InputKeys(side) ==
    {<<normalize_key_value(d.row[ID])>> :
        d \in {e \in Range(analysis.mismatch_df) : e.source = side}}

\* the composite keys of the output rows of a category
OutputKeys(mismatch_type) ==
    {<<normalize_key_value(d.row[ID])>> :
        d \in {e \in Range(analysis.result_df) : e.mismatch_type = mismatch_type}}

\* the keys retained of a category are the smallest of its keys
SmallestRetained(category_keys, retained) ==
    \A r \in retained : \A k \in category_keys \ retained : TupleLess(r, k)

\* C17: when a category holds more keys than its cap, the keys retained are
\* the smallest ones in composite-key order.  The code does not keep this: it
\* takes the first keys in the iteration order of a set and sorts the rows
\* only after the truncation.
C17_RetainedKeysAreSmallest ==
    Categorized =>
        /\ Cardinality(InputKeys("Source") \ InputKeys("Target")) > analysis.max_source_only
               => SmallestRetained(InputKeys("Source") \ InputKeys("Target"),
                                   OutputKeys("Source-only-row"))
        /\ Cardinality(InputKeys("Target") \ InputKeys("Source")) > analysis.max_target_only
               => SmallestRetained(InputKeys("Target") \ InputKeys("Source"),
                                   OutputKeys("Target-only-row"))

\* the analyzer returned a categorized output for a call with a summary
Reconciled == Categorized /\ analysis.cmp_summary_df # <<>>

\* the summary given to the analyzer
Upstream == analysis.cmp_summary_df[1]

\* a reconciled count is the fresh count when that is not zero, and the
\* upstream count only when the fresh count is zero
ReconciledCount(reconciled_count, fresh_count, upstream_count) ==
    /\ fresh_count # 0 => reconciled_count = fresh_count
    /\ fresh_count = 0 => reconciled_count = upstream_count

\* C18: when analyze is given an upstream summary, each reconciled count (rows
\* only in source, rows only in target, value mismatches) is the count computed
\* from the analyzer's output rows when that count is not zero, and the
\* upstream count only when the count computed is zero.
C18_FreshCountsPreferred ==
    Reconciled =>
        /\ ReconciledCount(comparison_summary.rows_only_in_source,
                           SourceOnlyRows, Upstream.rows_only_in_source)
        /\ ReconciledCount(comparison_summary.rows_only_in_target,
                           TargetOnlyRows, Upstream.rows_only_in_target)
        /\ ReconciledCount(comparison_summary.value_mismatches,
                           ValueMismatchPairs, Upstream.value_mismatches)

\* a fresh count and the upstream count differ and neither is zero
C18_Witness ==
    /\ Reconciled
    /\ SourceOnlyRows > 0
    /\ Upstream.rows_only_in_source > SourceOnlyRows
    /\ comparison_summary.rows_only_in_source = SourceOnlyRows

\* a fresh count is zero and the count is taken from upstream
C18_WitnessUpstream ==
    /\ Reconciled
    /\ ValueMismatchPairs = 0
    /\ Upstream.value_mismatches > 0
    /\ comparison_summary.value_mismatches = Upstream.value_mismatches

\* the composite key of a diff row
DiffKey(d) == <<normalize_key_value(d.row[ID])>>

\* the category of a row by the sides its key has rows on
KeyCategory(d) ==
    IF DiffKey(d) \in InputKeys("Source") \cap InputKeys("Target") THEN "Value-Mismatch"
    ELSE IF d.source = "Source" THEN "Source-only-row"
    ELSE "Target-only-row"

\* a source row and a target row of the key differ in a column that is no key
Differing(key) ==
    \E s, t \in Range(analysis.mismatch_df) :
        /\ s.source = "Source" /\ t.source = "Target"
        /\ DiffKey(s) = key /\ DiffKey(t) = key
        /\ \E col \in {NAME, AMT} : ~compare_values(s.row[col], t.row[col])

\* the row is in the input with the tags it has in the output
TaggedAsOnInput(d) == \E e \in Range(analysis.mismatch_df) : e = d

\* the caps and the keys leave nothing to categorize
NothingRetained ==
    /\ analysis.max_source_only = 0 \/ InputKeys("Source") \subseteq InputKeys("Target")
    /\ analysis.max_target_only = 0 \/ InputKeys("Target") \subseteq InputKeys("Source")
    /\ analysis.max_value_mismatches = 0
           \/ \A key \in InputKeys("Source") \cap InputKeys("Target") : ~Differing(key)

\* the tags of the input are present and consistent: a row only on one side
\* is of that side, and a Value-Mismatch row has one of the other side and of
\* its key
ConsistentTags ==
    \A d \in Range(analysis.mismatch_df) :
        /\ d.mismatch_type = "Source-only-row" => d.source = "Source"
        /\ d.mismatch_type = "Target-only-row" => d.source = "Target"
        /\ d.mismatch_type = "Value-Mismatch" =>
              \E e \in Range(analysis.mismatch_df) :
                  /\ e.mismatch_type = "Value-Mismatch"
                  /\ e.source # d.source
                  /\ DiffKey(e) = DiffKey(d)

\* C19 as claimed: when the tags of the input are present and consistent,
\* every row of the analyzer output carries the mismatch_type it had on
\* input.  It does not hold.
C19_AsClaimed ==
    Categorized /\ ConsistentTags =>
        \A d \in Range(analysis.result_df) : TaggedAsOnInput(d)

\* C19: the analyzer partitions the diff rows by their composite keys and
\* their source tags, not by their mismatch_type: an output row is a
\* Value-Mismatch row when its key has rows of both sides that differ, a
\* Source-only row when it is a source row whose key has no target row, and a
\* Target-only row alike; the rows of a key whose two sides agree are left
\* out.  Only when nothing is retained and a summary is given, the output is
\* made of input rows with the tags they came with.
C19_CategoriesFollowKeys ==
    Categorized =>
        \/ \A d \in Range(analysis.result_df) :
              /\ d.mismatch_type = KeyCategory(d)
              /\ d.mismatch_type = "Value-Mismatch" => Differing(DiffKey(d))
        \/ /\ NothingRetained
           /\ analysis.cmp_summary_df # <<>>
           /\ \A d \in Range(analysis.result_df) : TaggedAsOnInput(d)

\* an output row tagged Value-Mismatch that came in as a Source-only row,
\* with at least one cap above zero on a category that has keys
C19_Witness ==
    /\ Categorized
    /\ ConsistentTags
    /\ ~NothingRetained
    /\ \E d \in Range(analysis.result_df) :
          /\ d.mismatch_type = "Value-Mismatch"
          /\ \E e \in Range(analysis.mismatch_df) :
                /\ e.row = d.row
                /\ e.source = d.source
                /\ e.mismatch_type = "Source-only-row"

(***************************************************************************)
(* The state machine of several calls on one DataComparator and one        *)
(* DataDiff: compare_dataframes, analyze_and_categorize_mismatches on what *)
(* it returned, then compare_dataframes again with other arguments.  The   *)
(* attributes self.mismatch_details and self.comparison_summary live as    *)
(* long as the objects.                                                    *)
(***************************************************************************)
\* the largest number of rows of a dataframe of these calls
MaxCallRows == 1

\* a key column no dataframe has
DATE == <<"d", "a", "t", "e">>

CallRows == {Row3(<<"k">>, <<"x">>, <<"1">>), Row3(<<"k">>, <<"x">>, <<"2">>)}

CallFrames ==
    {[columns |-> <<ID, NAME, AMT>>, rows |-> rs] : rs \in SeqsUpTo(CallRows, MaxCallRows)}

CallKeyChoices == {<<ID_UPPER>>, <<DATE>>}

InitCalls ==
    /\ arg_src \in CallFrames
    /\ arg_tgt \in CallFrames
    /\ arg_keys \in CallKeyChoices
    /\ arg_chunk \in 1..MaxCallRows
    /\ hash_seed \in {0, 1}
    /\ pc = "call"
    /\ chunks = 0
    /\ i = 0
    /\ valid_src_keys = <<>>
    /\ acc = initial_acc
    /\ last_chunk_result = NoChunkResult
    /\ mismatch_details = EmptyDict
    /\ df_cmp_result_data = <<>>
    /\ cmp_summary_df = NoSummary
    /\ error = NoError
    /\ call = NoCall
    /\ result = NoResult
    /\ analysis = NoAnalysis
    /\ comparison_summary = EmptyDict

\* the caller calls compare_dataframes again on the same objects: the locals
\* of the call are new, the attributes of the objects are as they were left
NextCall ==
    /\ pc \in {"returned", "raised"}
    /\ arg_src' \in CallFrames
    /\ arg_tgt' \in CallFrames
    /\ arg_keys' \in CallKeyChoices
    /\ arg_chunk' \in 1..MaxCallRows
    /\ pc' = "call"
    /\ chunks' = 0
    /\ i' = 0
    /\ valid_src_keys' = <<>>
    /\ acc' = initial_acc
    /\ last_chunk_result' = NoChunkResult
    /\ df_cmp_result_data' = <<>>
    /\ cmp_summary_df' = NoSummary
    /\ error' = NoError
    /\ analysis' = NoAnalysis
    /\ UNCHANGED <<hash_seed, mismatch_details, comparison_summary, util_vars>>

NextCalls == Call \/ CompareChunkWithKeys \/ Combine \/ Analyze \/ NextCall

SpecCalls == InitCalls /\ [][NextCalls]_vars

\* the mismatch details the first n chunks of the call's own arguments give
RECURSIVE OwnMismatchDetails(_)
OwnMismatchDetails(n) ==
    IF n = 0 THEN EmptyDict
    ELSE DictUpdate(OwnMismatchDetails(n - 1),
                    chunk_result(arg_src, arg_tgt, valid_src_keys, n - 1,
                                 arg_chunk).mismatch_details)

\* C20: nothing computed by an earlier call is observable after a later call:
\* when a comparison has ended, self.mismatch_details holds what the
\* comparison of its own arguments gives (nothing, when it failed), and after
\* an analysis that returned no output self.comparison_summary holds nothing.
\* The code does not keep this: a comparison that fails before line 223 and
\* an analysis that returns early leave the attributes of the earlier call.
C20_NoStateRetained ==
    /\ pc = "raised" => mismatch_details = EmptyDict
    /\ pc = "returned" => mismatch_details = OwnMismatchDetails(chunks)
    /\ analysis.called /\ analysis.returned_none => comparison_summary = EmptyDict

(***************************************************************************)
(* A failure while a chunk is processed.  Whatever a chunk's processing   *)
(* raises is caught by the except clauses: the one of _compare_with_keys   *)
(* wraps what is raised inside it, the one of compare_dataframes wraps     *)
(* everything, and both raise ValueError.                                  *)
(***************************************************************************)
\* the bound on the rows of each dataframe of a call in which a chunk fails
MaxFailRows == 2

\* an exception raised by the processing of a chunk
ProcessingError == "processing error"

\* the except clause with the results of the chunks before returned
except_clause_partial(a, src, tgt, e) ==
    [raised |-> TRUE, error |-> Wrapped(DataComparisonFailed, e),
     df_cmp_result_data |-> combined_diffs(a),
     cmp_summary_df |-> summary(src, tgt, a)]

\* except Exception as e: raise ValueError(f"Data comparison failed: {e}"):
\* the call returns nothing
except_clause(a, src, tgt, e) ==
    [raised |-> TRUE, error |-> Wrapped(DataComparisonFailed, e),
     df_cmp_result_data |-> <<>>, cmp_summary_df |-> NoSummary]

\* the state of the comparison before compare_dataframes is called
NotStarted ==
    /\ pc = "call"
    /\ chunks = 0
    /\ i = 0
    /\ valid_src_keys = <<>>
    /\ acc = initial_acc
    /\ last_chunk_result = NoChunkResult
    /\ mismatch_details = EmptyDict
    /\ df_cmp_result_data = <<>>
    /\ cmp_summary_df = NoSummary
    /\ error = NoError
    /\ analysis = NoAnalysis
    /\ comparison_summary = EmptyDict

\* compare_dataframes has not been called, no other method is called
BeforeCall == NotStarted /\ call = NoCall /\ result = NoResult

\* rows over the columns id and name: two of one key that differ in name, one
\* of another key
PlainRows ==
    {Row2(<<"k">>, <<"x">>), Row2(<<"k">>, <<"a">>), Row2(<<"j">>, <<"x">>)}

FailFrames ==
    {[columns |-> <<ID, NAME>>, rows |-> rs] : rs \in SeqsUpTo(PlainRows, MaxFailRows)}

InitFailure ==
    /\ arg_src \in FailFrames
    /\ arg_tgt \in FailFrames
    /\ arg_keys \in KeyColumnChoices
    /\ arg_chunk \in 1..MaxFailRows
    /\ hash_seed = 0
    /\ BeforeCall

\* what the processing of a chunk raises, as it reaches the except clause of
\* compare_dataframes: from _compare_with_keys it comes wrapped
ChunkErrors ==
    IF valid_src_keys # <<>>
    THEN {<<ProcessingError>>, Wrapped(KeyComparisonFailed, <<ProcessingError>>)}
    ELSE {<<ProcessingError>>}

\* the processing of chunk i raises
ChunkFails ==
    /\ pc = "loop"
    /\ i < chunks
    /\ \E e \in ChunkErrors :
          LET h == except_clause(acc, arg_src, arg_tgt, e)
          IN  /\ pc' = "raised"
              /\ error' = h.error
              /\ df_cmp_result_data' = h.df_cmp_result_data
              /\ cmp_summary_df' = h.cmp_summary_df
    /\ UNCHANGED <<arg_src, arg_tgt, arg_keys, arg_chunk, hash_seed, chunks, i,
                   valid_src_keys, acc, last_chunk_result, mismatch_details>>
    /\ UNCHANGED <<util_vars, analyzer_vars>>

NextFailure ==
    \/ Call
    \/ CompareChunkWithKeys
    \/ CompareChunkByHash
    \/ ChunkFails
    \/ Combine

SpecFailure == InitFailure /\ [][NextFailure]_vars

\* chunk i failed after chunks 0..i-1 had been compared
FailedInChunk == pc = "raised" /\ chunks > 0

(***************************************************************************)
(* C21.  A failure in the processing of any chunk aborts the comparison:   *)
(* the call raises the "Data comparison failed" error and returns neither  *)
(* diff rows nor a summary, whatever the chunks before have accumulated.   *)
(***************************************************************************)
C21_FailureAborts ==
    FailedInChunk =>
        /\ NoOutput
        /\ error # NoError
        /\ error[1] = DataComparisonFailed

\* a later chunk fails when the chunks before have found differences
C21_Witness ==
    /\ FailedInChunk
    /\ i >= 1
    /\ acc.total_diff_count > 0
    /\ combined_diffs(acc) # <<>>

(***************************************************************************)
(* The shared utility functions called on their own.  A cell that is not   *)
(* null reaches normalize_key_value as its string form, str(value); a call *)
(* of compare_values sees the Python type of each value.                   *)
(***************************************************************************)
\* the longest string normalized
MaxLen == 4

\* the largest integer compared
MaxInt == 2

\* the characters of the strings normalized: the two separators of the
\* model, a letter in both cases, a digit
NormalizeChars == {" ", "_", "A", "a", "1"}

NormalizeInputs == {NaN} \cup SeqsUpTo(NormalizeChars, MaxLen)

\* a Python value with its type: num holds the number of an int, the truth
\* of a bool as 0 or 1, the day of a timestamp and the number of halves of a
\* float (1.0 is 2, 1.5 is 3); str holds the characters of a string.  None
\* and float('nan') are the nulls
PyNone == [type |-> "NoneType", num |-> 0, str |-> <<>>]

PyNaN == [type |-> "nan", num |-> 0, str |-> <<>>]

PyInt(n) == [type |-> "int", num |-> n, str |-> <<>>]

PyFloat(halves) == [type |-> "float", num |-> halves, str |-> <<>>]

PyBool(b) == [type |-> "bool", num |-> IF b THEN 1 ELSE 0, str |-> <<>>]

PyStr(s) == [type |-> "str", num |-> 0, str |-> s]

\* a value that is neither a number nor a string: a timestamp, by its day
PyTimestamp(day) == [type |-> "timestamp", num |-> day, str |-> <<>>]

\* pd.isna on a scalar
pd_isna(v) == v.type \in {"NoneType", "nan"}

\* isinstance(v, (int, float)): bool is a subclass of int
is_int_or_float(v) == v.type \in {"int", "float", "bool"}

\* isinstance(v, str)
is_str(v) == v.type = "str"

\* the number a value of int, float or bool stands for, in halves
halves_of(v) ==
    CASE v.type = "int"   -> 2 * v.num
      [] v.type = "float" -> v.num
      [] v.type = "bool"  -> 2 * v.num

\* Python's == on two values that are not null: numbers compare by value
\* across int, float and bool, values of one type by their value, values of
\* different types are unequal
py_eq(a, b) ==
    IF is_int_or_float(a) /\ is_int_or_float(b) THEN halves_of(a) = halves_of(b)
    ELSE a = b

\* compare_values with the strings compared as they are
compare_values_exact(src_val, tgt_val) ==
    IF pd_isna(src_val) /\ pd_isna(tgt_val) THEN TRUE
    ELSE IF pd_isna(src_val) \/ pd_isna(tgt_val) THEN FALSE
    ELSE py_eq(src_val, tgt_val)

\* compare_values on values of any type
compare_values_typed(src_val, tgt_val) ==
    IF pd_isna(src_val) /\ pd_isna(tgt_val) THEN TRUE
    ELSE IF pd_isna(src_val) \/ pd_isna(tgt_val) THEN FALSE
    ELSE IF is_int_or_float(src_val) /\ is_int_or_float(tgt_val)
         THEN halves_of(src_val) = halves_of(tgt_val)
    ELSE IF is_str(src_val) /\ is_str(tgt_val)
         THEN lower(src_val.str) = lower(tgt_val.str)
    ELSE py_eq(src_val, tgt_val)

PyValues ==
    {PyNone, PyNaN}
    \cup {PyInt(n) : n \in 0..MaxInt}
    \cup {PyFloat(h) : h \in 0..(2 * MaxInt)}
    \cup {PyBool(b) : b \in BOOLEAN}
    \cup {PyStr(s) : s \in SeqsUpTo({"A", "a", "1"}, 2)}
    \cup {PyTimestamp(day) : day \in 1..2}

InitValues ==
    /\ Idle
    /\ \/ call \in {[op |-> "normalize_key_value", input |-> x, value |-> x,
                      calls |-> 0] : x \in NormalizeInputs}
       \/ call \in [op : {"compare_values"}, src_val : PyValues, tgt_val : PyValues]
    /\ result = NoResult

\* the argument of the next call of normalize_key_value: the input first,
\* then what the call before returned
NextArgument == IF call.calls = 0 THEN call.input ELSE result.value

\* normalize_key_value(value)
NormalizeKeyValue ==
    /\ call.op = "normalize_key_value"
    /\ call.calls < 2
    /\ result' = Returns(normalize_key_value(NextArgument))
    /\ call' = [call EXCEPT !.calls = @ + 1, !.value = NextArgument]
    /\ UNCHANGED <<compare_vars, analyzer_vars>>

\* compare_values(src_val, tgt_val)
CompareValues ==
    /\ call.op = "compare_values"
    /\ result = NoResult
    /\ result' = Returns(compare_values_typed(call.src_val, call.tgt_val))
    /\ UNCHANGED <<call, compare_vars, analyzer_vars>>

NextValues == NormalizeKeyValue \/ CompareValues

SpecValues == InitValues /\ [][NextValues]_vars

\* the string with every separator dropped and every other character in
\* lower case
RECURSIVE Cleaned(_)
Cleaned(s) ==
    IF s = <<>> THEN <<>>
    ELSE IF Head(s) \in {"_", " "} THEN Cleaned(Tail(s))
    ELSE <<LowerChar(Head(s))>> \o Cleaned(Tail(s))

\* normalize_key_value has returned from its first call
Normalized1 == call.op = "normalize_key_value" /\ call.calls = 1

\* normalize_key_value has returned from the call on its own result
Normalized2 == call.op = "normalize_key_value" /\ call.calls = 2

(***************************************************************************)
(* C22.  normalize_key_value is total: it returns "NA" for a null and, for *)
(* any other value, the string form lower-cased with every whitespace and  *)
(* underscore character removed; it never raises.                          *)
(***************************************************************************)
C22_NormalizeTotal ==
    Normalized1 =>
        /\ result.returned
        /\ ~result.raised
        /\ result.value = IF call.input = NaN THEN NA ELSE Cleaned(call.input)

\* the string " A_1" is normalized to "a1"
C22_Witness ==
    /\ Normalized1
    /\ call.input = <<" ", "A", "_", "1">>
    /\ result.value = <<"a", "1">>

\* a null is normalized to "NA"
C22_WitnessNull == Normalized1 /\ call.input = NaN /\ result.value = NA

(***************************************************************************)
(* C23.  Normalization is idempotent on strings: normalizing what          *)
(* normalize_key_value returned for a string returns the same string.      *)
(***************************************************************************)
C23_NormalizeIdempotent ==
    (Normalized2 /\ call.input # NaN) => result.value = call.value

\* a string the first call changes, normalized twice
C23_Witness ==
    /\ Normalized2
    /\ call.input = <<"_", "A", " ">>
    /\ call.value = <<"a">>
    /\ result.value = <<"a">>

\* compare_values has returned
Compared == call.op = "compare_values" /\ result.returned

BothNull == pd_isna(call.src_val) /\ pd_isna(call.tgt_val)

OneNull == pd_isna(call.src_val) # pd_isna(call.tgt_val)

BothNumbers == call.src_val.type \in {"int", "float"} /\ call.tgt_val.type \in {"int", "float"}

BothStrings == call.src_val.type = "str" /\ call.tgt_val.type = "str"

(***************************************************************************)
(* C24.  compare_values returns true when both values are null, false when *)
(* exactly one is, numeric equality when both are numbers, equality        *)
(* regardless of case when both are strings, and plain equality otherwise. *)
(***************************************************************************)
C24_CompareValues ==
    Compared =>
        result.value =
            CASE BothNull    -> TRUE
              [] OneNull     -> FALSE
              [] BothNumbers -> halves_of(call.src_val) = halves_of(call.tgt_val)
              [] BothStrings -> lower(call.src_val.str) = lower(call.tgt_val.str)
              [] OTHER       -> py_eq(call.src_val, call.tgt_val)

\* two strings that differ in case only compare equal
C24_Witness ==
    /\ Compared
    /\ call.src_val = PyStr(<<"A", "1">>)
    /\ call.tgt_val = PyStr(<<"a", "1">>)
    /\ result.value = TRUE

\* an int and the float of the same value compare equal; a number and a
\* string, a null and a number do not
C24_WitnessNumbers ==
    /\ Compared
    /\ call.src_val = PyInt(1)
    /\ call.tgt_val = PyFloat(2)
    /\ result.value = TRUE

(***************************************************************************)
(* Key-based comparison of dataframes whose columns differ: the source has *)
(* the column amt, the target does not.                                    *)
(***************************************************************************)
\* the bound on the rows of each of the two dataframes
MaxRaggedRows == 2

RaggedSourceRows ==
    {Row3(<<"k">>, <<"x">>, NaN), Row3(<<"k">>, <<"x">>, <<"1">>),
     Row3(<<"j">>, <<"X">>, NaN)}

RaggedSourceFrames ==
    {[columns |-> <<ID, NAME, AMT>>, rows |-> rs] :
        rs \in SeqsUpTo(RaggedSourceRows, MaxRaggedRows)}

RaggedTargetFrames ==
    {[columns |-> <<ID, NAME>>, rows |-> rs] :
        rs \in SeqsUpTo(NarrowRows, MaxRaggedRows)}

InitRagged ==
    /\ arg_src \in RaggedSourceFrames
    /\ arg_tgt \in RaggedTargetFrames
    /\ arg_keys = <<ID_UPPER>>
    /\ arg_chunk \in 1..MaxRaggedRows
    /\ hash_seed \in {0, 1}
    /\ BeforeCall

\* the call resolves the key column id, so every chunk is compared by keys
NextRagged == Call \/ CompareChunkWithKeys \/ Combine

SpecRagged == InitRagged /\ [][NextRagged]_vars

\* the non-key columns of the source with the normalized values of a row, a
\* column the row does not have counting as null
NullFilled(row) ==
    [c \in Range(arg_src.columns) \ Range(valid_src_keys) |->
        IF c \in DOMAIN row THEN normalize_key_value(row[c])
        ELSE normalize_key_value(NaN)]

\* the rows of the key k on the two sides of the last window are the same
\* when a missing column counts as null
SameWithMissingAsNull(k) ==
    {NullFilled(LastSrcWindow.rows[n]) :
        n \in {m \in 1..len(LastSrcWindow) : KeyOf(LastSrcWindow.rows[m]) = k}}
    = {NullFilled(LastTgtWindow.rows[n]) :
        n \in {m \in 1..len(LastTgtWindow) : KeyOf(LastTgtWindow.rows[m]) = k}}

(***************************************************************************)
(* C25.  A column missing from one side's rows is treated as null: for a   *)
(* key common to both sides of a window, source rows whose value in a      *)
(* source-only column is null have the fingerprint of the target rows that *)
(* lack the column, so the key is not reported as a Value-Mismatch.  The   *)
(* code gives the missing column the fingerprint None and the null the     *)
(* fingerprint "NA", so the statement fails: C25_MissingColumnIsNull       *)
(* states the claim and does not hold.                                     *)
(***************************************************************************)
C25_MissingColumnIsNull ==
    (ChunkDone /\ KeyMode) =>
        \A k \in WindowKeys(LastSrcWindow) \cap WindowKeys(LastTgtWindow) :
            SameWithMissingAsNull(k) =>
                DiffsOfKey(last_chunk_result.value_mismatch_df, k) = <<>>

(***************************************************************************)
(* Vocabulary of C26: the windows in which the rows of a key lie.          *)
(***************************************************************************)
\* the source rows of key k in whose window the target has no row of k
AloneInSourceWindow(k) ==
    SelectSeq([n \in 1..len(arg_src) |-> <<n, arg_src.rows[n]>>],
              LAMBDA e : /\ KeyOf(e[2]) = k
                         /\ \A n \in PositionsOf(arg_tgt, k) :
                               WindowOf(n, arg_chunk) # WindowOf(e[1], arg_chunk))

\* the target rows of key k in whose window the source has no row of k
AloneInTargetWindow(k) ==
    SelectSeq([n \in 1..len(arg_tgt) |-> <<n, arg_tgt.rows[n]>>],
              LAMBDA e : /\ KeyOf(e[2]) = k
                         /\ \A m \in PositionsOf(arg_src, k) :
                               WindowOf(m, arg_chunk) # WindowOf(e[1], arg_chunk))

RowsAt(entries) == [n \in 1..Len(entries) |-> entries[n][2]]

\* the key k has a source row and a target row in different windows
SplitAcrossWindows(k) ==
    \E m \in PositionsOf(arg_src, k), n \in PositionsOf(arg_tgt, k) :
        WindowOf(m, arg_chunk) # WindowOf(n, arg_chunk)

OneSidedOfKey(k) ==
    SelectSeq(DiffsOfKey(df_cmp_result_data, k),
              LAMBDA d : d.mismatch_type \in {"Source-only-row", "Target-only-row"})

(***************************************************************************)
(* C26, as claimed.  In key mode the determination for a key is final only *)
(* after all rows of the key, in every window of both dataframes, have     *)
(* been seen: a key whose source row lies in one window and whose target   *)
(* row lies in another is never reported as Source-only or Target-only.    *)
(* It fails: each window is compared on its own.                           *)
(***************************************************************************)
C26_AsClaimed ==
    (Returned /\ KeyMode) =>
        \A k \in AllKeys : SplitAcrossWindows(k) => OneSidedOfKey(k) = <<>>

(***************************************************************************)
(* C26, amended.  In key mode the determination for a key is made window   *)
(* by window from the rows of that window: the Source-only rows of a key   *)
(* are its source rows in whose window the target has no row of the key,   *)
(* the Target-only rows its target rows in whose window the source has no  *)
(* row of the key.  So a key on both sides is never reported as            *)
(* Source-only or Target-only when all its rows lie in one window.         *)
(***************************************************************************)
C26_DeterminedPerWindow ==
    (Returned /\ KeyMode) =>
        \A k \in AllKeys :
            /\ OfType(DiffsOfKey(df_cmp_result_data, k), "Source-only-row")
                   = TagAll(RowsAt(AloneInSourceWindow(k)), "Source", "Source-only-row")
            /\ OfType(DiffsOfKey(df_cmp_result_data, k), "Target-only-row")
                   = TagAll(RowsAt(AloneInTargetWindow(k)), "Target", "Target-only-row")
            /\ (~SplitAcrossWindows(k) /\ PositionsOf(arg_src, k) # {}
                  /\ PositionsOf(arg_tgt, k) # {})
               => OneSidedOfKey(k) = <<>>

\* a key with its one source row in window 0 and its one target row in
\* window 1, reported as Source-only and as Target-only
C26_Witness ==
    /\ Returned /\ KeyMode
    /\ \E k \in AllKeys :
          /\ PositionsOf(arg_src, k) = {1}
          /\ PositionsOf(arg_tgt, k) = {2}
          /\ arg_chunk = 1
          /\ Len(OneSidedOfKey(k)) = 2

(***************************************************************************)
(* The chunk loop with the windows taken in any order.  The code takes     *)
(* them in index order; here the order is an input of the run, held in     *)
(* call.order, and the i-th iteration compares the window call.order[i+1]  *)
(* and stores its result as the loop body does.                            *)
(***************************************************************************)
\* the bound on the rows of each dataframe whose windows are reordered
MaxOrderRows == 2

OrderFrames ==
    {[columns |-> <<ID, NAME>>, rows |-> rs] : rs \in SeqsUpTo(PlainRows, MaxOrderRows)}

\* the orders in which n windows can be taken
Orders(n) ==
    {p \in [1..n -> 0..(n - 1)] : \A a, b \in 1..n : p[a] = p[b] => a = b}

InitAnyOrder ==
    /\ arg_src \in OrderFrames
    /\ arg_tgt \in OrderFrames
    /\ arg_keys \in KeyColumnChoices
    /\ arg_chunk \in 1..MaxOrderRows
    /\ hash_seed = 0
    /\ NotStarted
    /\ call \in {[op |-> "windows in order", order |-> p] :
                    p \in Orders(chunk_count(arg_src, arg_tgt, arg_chunk))}
    /\ result = NoResult

\* one iteration of the loop body on the window call.order[i + 1]
CompareChunkInOrder ==
    /\ pc = "loop"
    /\ i < chunks
    /\ call.op = "windows in order"
    /\ LET r == chunk_result(arg_src, arg_tgt, valid_src_keys, call.order[i + 1],
                             arg_chunk)
       IN  IF r.raised
           THEN /\ pc' = "raised"
                /\ error' = Wrapped(DataComparisonFailed, r.error)
                /\ UNCHANGED <<i, acc, last_chunk_result, mismatch_details>>
           ELSE /\ pc' = "loop"
                /\ error' = NoError
                /\ i' = i + 1
                /\ acc' = store_results(acc, r)
                /\ last_chunk_result' = r
                /\ mismatch_details' = DictUpdate(mismatch_details, r.mismatch_details)
    /\ UNCHANGED <<arg_src, arg_tgt, arg_keys, arg_chunk, hash_seed, chunks,
                   valid_src_keys, df_cmp_result_data, cmp_summary_df>>
    /\ UNCHANGED <<util_vars, analyzer_vars>>

NextAnyOrder == Call \/ CompareChunkInOrder \/ Combine

SpecAnyOrder == InitAnyOrder /\ [][NextAnyOrder]_vars

\* what compare_dataframes returns for the arguments of the run, its loop
\* taking the windows in index order
InIndexOrder == compare_dataframes(arg_src, arg_tgt, arg_keys, arg_chunk)

(***************************************************************************)
(* C27.  Chunk aggregation is a pure reduction: with the windows processed *)
(* in any order the summary counts (rows only in source, rows only in      *)
(* target, value mismatches, total differences) and the comparison result  *)
(* are those of processing them in index order.                            *)
(***************************************************************************)
C27_OrderIndependent ==
    Returned =>
        /\ ~InIndexOrder.raised
        /\ cmp_summary_df.rows_only_in_source
               = InIndexOrder.cmp_summary_df.rows_only_in_source
        /\ cmp_summary_df.rows_only_in_target
               = InIndexOrder.cmp_summary_df.rows_only_in_target
        /\ cmp_summary_df.value_mismatches
               = InIndexOrder.cmp_summary_df.value_mismatches
        /\ cmp_summary_df.total_differences
               = InIndexOrder.cmp_summary_df.total_differences
        /\ cmp_summary_df.comparison_result
               = InIndexOrder.cmp_summary_df.comparison_result

\* the last window was processed first, the two windows have different
\* numbers of differences, and the diff rows come out in another order
C27_Witness ==
    /\ Returned
    /\ chunks = 2
    /\ call.order = <<1, 0>>
    /\ df_cmp_result_data # InIndexOrder.df_cmp_result_data
    /\ cmp_summary_df.total_differences = 3

(***************************************************************************)
(* Vocabulary of C28: the fingerprints of a key on the two sides of the    *)
(* last window, each the non-key columns with their normalized values.     *)
(***************************************************************************)
SourceFingerprints(k) ==
    {NonKeyNormalized(LastSrcWindow.rows[n]) :
        n \in {m \in 1..len(LastSrcWindow) : KeyOf(LastSrcWindow.rows[m]) = k}}

TargetFingerprints(k) ==
    {NonKeyNormalized(LastTgtWindow.rows[n]) :
        n \in {m \in 1..len(LastTgtWindow) : KeyOf(LastTgtWindow.rows[m]) = k}}

\* the columns in which some fingerprint of unmatched differs from some
\* fingerprint of opposite
ColumnsDiffering(unmatched, opposite) ==
    UNION {{c \in DOMAIN f : f[c] # g[c]} : <<f, g>> \in unmatched \X opposite}

\* the union the claim describes for the key k
AttributedColumns(k) ==
    ColumnsDiffering(SourceFingerprints(k) \ TargetFingerprints(k), TargetFingerprints(k))
    \cup ColumnsDiffering(TargetFingerprints(k) \ SourceFingerprints(k), SourceFingerprints(k))

(***************************************************************************)
(* C28.  Mismatch-detail attribution: every key common to both sides of a  *)
(* window that has a fingerprint without a match, on the source side or on *)
(* the target side, gets a mismatch-detail entry, and the entry is the     *)
(* union, over every unmatched fingerprint and every fingerprint of the    *)
(* opposite side, of the columns in which the two differ.  The code makes  *)
(* the entry from the first source-only fingerprint alone and makes none   *)
(* for target-only fingerprints, so the statement fails:                   *)
(* C28_DetailsAreUnion states the claim and does not hold.                 *)
(***************************************************************************)
C28_DetailsAreUnion ==
    (ChunkDone /\ KeyMode) =>
        \A k \in WindowKeys(LastSrcWindow) \cap WindowKeys(LastTgtWindow) :
            SourceFingerprints(k) # TargetFingerprints(k) =>
                /\ k \in DOMAIN last_chunk_result.mismatch_details
                /\ last_chunk_result.mismatch_details[k] = AttributedColumns(k)

(***************************************************************************)
(* C29.  For every compare call that returns, the comparison result of the *)
(* summary is "Identical" if and only if the returned diff set has no row. *)
(***************************************************************************)
C29_IdenticalIffNoDiffRows ==
    Returned =>
        (cmp_summary_df.comparison_result = "Identical" <=> df_cmp_result_data = <<>>)

\* a call that returns Value-Mismatch rows only, and "Differences found"
C29_Witness ==
    /\ Returned
    /\ df_cmp_result_data # <<>>
    /\ \A n \in 1..Len(df_cmp_result_data) :
          df_cmp_result_data[n].mismatch_type = "Value-Mismatch"
    /\ cmp_summary_df.comparison_result = "Differences found"

\* a call on dataframes with rows that returns no diff row, and "Identical"
C29_WitnessIdentical ==
    /\ Returned
    /\ len(arg_src) > 0
    /\ df_cmp_result_data = <<>>
    /\ cmp_summary_df.comparison_result = "Identical"

\* the number of rows of a window equal to row
Occurrences(w, row) == Cardinality({n \in 1..len(w) : w.rows[n] = row})

(***************************************************************************)
(* C30.  compare ignores how often a row occurs.  In hash mode a row value *)
(* that occurs at least once on both sides of a window is never reported,  *)
(* however many times it occurs on each side.  In key mode a common key    *)
(* whose set of distinct non-key fingerprints is the same on both sides is *)
(* never reported, also when the number of rows of the key differs between *)
(* source and target.                                                      *)
(***************************************************************************)
C30_MultiplicityIgnored ==
    /\ (ChunkDone /\ HashMode) =>
           \A n \in 1..Len(AllDiffs(last_chunk_result)) :
               LET d == AllDiffs(last_chunk_result)[n]
               IN  ~(/\ Occurrences(LastSrcWindow, d.row) >= 1
                     /\ Occurrences(LastTgtWindow, d.row) >= 1)
    /\ (ChunkDone /\ KeyMode) =>
           \A k \in WindowKeys(LastSrcWindow) \cap WindowKeys(LastTgtWindow) :
               SourceFingerprints(k) = TargetFingerprints(k) =>
                   DiffsOfKey(AllDiffs(last_chunk_result), k) = <<>>

\* hash mode: a row twice in the source window and once in the target
\* window, and no diff row
C30_Witness ==
    /\ ChunkDone /\ HashMode
    /\ \E n \in 1..len(LastSrcWindow) :
          /\ Occurrences(LastSrcWindow, LastSrcWindow.rows[n]) = 2
          /\ Occurrences(LastTgtWindow, LastSrcWindow.rows[n]) = 1
    /\ AllDiffs(last_chunk_result) = <<>>

\* key mode: a key with two rows in the source window and one in the target
\* window, the fingerprints the same, and no diff row
C30_WitnessKeys ==
    /\ ChunkDone /\ KeyMode
    /\ \E k \in WindowKeys(LastSrcWindow) \cap WindowKeys(LastTgtWindow) :
          /\ Len(RowsOfKey(LastSrcWindow.rows, k)) = 2
          /\ Len(RowsOfKey(LastTgtWindow.rows, k)) = 1
          /\ SourceFingerprints(k) = TargetFingerprints(k)
    /\ AllDiffs(last_chunk_result) = <<>>

====
